---- MODULE Spec2Model ----
(***************************************************************************)
(* A model of brilopt: basic-block partitioning and CFG construction       *)
(* (parse.rs), reaching definitions and dominance (analyze.rs,             *)
(* dataflow.rs), local value numbering (lvn.rs, optimize.rs).              *)
(*                                                                         *)
(* Each component has its own specification over the shared variables:     *)
(*   SpecCFG  basic_blocks, control_flow_graph, block_name_to_idx          *)
(*   SpecDom  dominators, dominance_frontier                               *)
(*   SpecRD   reaching_definitions                                         *)
(*   SpecLVN  lvn_block                                                    *)
(***************************************************************************)
EXTENDS Integers, Sequences, FiniteSets, TLC

VARIABLES
    pc,          \* position of the running pass
    instrs,      \* func.instrs (or the basic block handed to a block pass)
    line,        \* index of the next element of the loop the pass is in
    blocks,      \* basic_blocks: the blocks pushed so far
    block,       \* basic_blocks: the block being filled
    cfg,         \* control_flow_graph's result
    name2idx,    \* block_name_to_idx's result
    block_names, \* dominators / reaching_definitions: the key order drawn
    last_dom,    \* dominators: the map of the last iteration
    frontier,    \* dominance_frontier's result
    inputs,      \* reaching_definitions: IN per block
    outputs,     \* reaching_definitions: OUT per block
    worklist,    \* reaching_definitions: the worklist
    folding,     \* lvn_block's folding argument
    lvn,         \* the LVN struct
    lvn_out,     \* lvn_block: the instructions emitted so far
    first_out,   \* the result of the first lvn_block run
    second_out,  \* the result of lvn_block on first_out
    dce_last,    \* dead_variable_elim / dead_store_elim: `last`, the last iteration's result
    dom_tree,    \* dominator_tree's result
    var_names,   \* convert_to_ssa: the stack of (block, name) of every variable
    name_counter, \* convert_to_ssa: the next suffix of every variable
    rename_stack, \* convert_to_ssa: the calls of rename that have not returned
    rename_visits \* convert_to_ssa: the block of every call of rename so far

vars == <<pc, instrs, line, blocks, block, cfg, name2idx, block_names, last_dom,
          frontier, inputs, outputs, worklist, folding, lvn, lvn_out,
          first_out, second_out, dce_last, dom_tree, var_names, name_counter,
          rename_stack, rename_visits>>

cfgVars == <<cfg, name2idx>>
domVars == <<block_names, last_dom, frontier>>
rdVars  == <<inputs, outputs, worklist>>
lvnVars == <<folding, lvn, lvn_out, first_out, second_out>>
dceVars == <<dce_last>>
ssaVars == <<dom_tree, var_names, name_counter, rename_stack, rename_visits>>

(***************************************************************************)
(* Bounds of the model.                                                    *)
(***************************************************************************)
MaxInstrs == 4
MaxDomInstrs == 3
MaxRDInstrs == 4
MaxWorklist == 8
MaxLvnLen == 3
MaxDveLen == 4
MaxDseLen == 4

-----------------------------------------------------------------------------
(***************************************************************************)
(* The IR: bril_rs::Code.  Every Code item is a record with the same       *)
(* fields, so that a field of any item can be read.                        *)
(***************************************************************************)
NoLit == [ty |-> "none", v |-> 0]
IntLit(n) == [ty |-> "int", v |-> n]
BoolLit(b) == [ty |-> "bool", v |-> IF b THEN 1 ELSE 0]

Label(l) ==
    [kind |-> "Label", label |-> l, op |-> "", dest |-> "", args |-> <<>>,
     labels |-> <<>>, value |-> NoLit]
Constant(d, lit) ==
    [kind |-> "Constant", label |-> "", op |-> "const", dest |-> d,
     args |-> <<>>, labels |-> <<>>, value |-> lit]
Value(o, d, as) ==
    [kind |-> "Value", label |-> "", op |-> o, dest |-> d, args |-> as,
     labels |-> <<>>, value |-> NoLit]
Effect(o, as, ls) ==
    [kind |-> "Effect", label |-> "", op |-> o, dest |-> "", args |-> as,
     labels |-> ls, value |-> NoLit]

HasDest(c) == c.kind \in {"Constant", "Value"}
HasArgs(c) == c.kind \in {"Value", "Effect"}

\* func.name
fname == "f"

SeqsUpTo(S, n) == UNION {[1..k -> S] : k \in 0..n}
Range(s) == {s[i] : i \in DOMAIN s}

RECURSIVE Concat(_)
Concat(ss) == IF ss = <<>> THEN <<>> ELSE Head(ss) \o Concat(Tail(ss))

\* HashMap::insert: a later insert of the same key replaces the entry
MapInsert(m, k, v) == [x \in DOMAIN m \cup {k} |-> IF x = k THEN v ELSE m[x]]
EmptyMap == [x \in {} |-> {}]

-----------------------------------------------------------------------------
(***************************************************************************)
(* parse.rs                                                                *)
(***************************************************************************)
TERMINATORS == {"jmp", "br", "ret"}

\* (mutant) ret is not taken for a terminator
IsTerminator_noret(c) == c.kind = "Effect" /\ c.op \in {"jmp", "br"}
IsTerminator(c) == c.kind = "Effect" /\ c.op \in TERMINATORS

\* one iteration of the loop of basic_blocks over func.instrs
BBStep(st, c) ==
    IF c.kind = "Label"
    THEN [blocks |-> IF st.block # <<>> THEN Append(st.blocks, st.block)
                     ELSE st.blocks,
          block  |-> <<c>>]
    ELSE LET pushed == Append(st.block, c) IN
         IF IsTerminator(c) /\ pushed # <<>>
         THEN [blocks |-> Append(st.blocks, pushed), block |-> <<>>]
         ELSE [blocks |-> st.blocks, block |-> pushed]

\* the flush after the loop
BBFlush(st) ==
    IF st.block # <<>> THEN [blocks |-> Append(st.blocks, st.block), block |-> <<>>]
    ELSE st

RECURSIVE BBFold(_, _)
BBFold(st, is) == IF is = <<>> THEN st ELSE BBFold(BBStep(st, Head(is)), Tail(is))

basic_blocks(is) == BBFlush(BBFold([blocks |-> <<>>, block |-> <<>>], is)).blocks

\* block_idx is the 0-based index of the block, as in the source
get_block_name(b, block_idx) ==
    IF b[1].kind = "Label" THEN b[1].label ELSE fname \o ToString(block_idx)

expanded_basic_blocks(is) ==
    <<<<Label("entry")>>>> \o basic_blocks(is) \o <<<<Label("exit")>>>>

\* the name of the i-th (1-based) block of bs
NameAt(bs, i) == get_block_name(bs[i], i - 1)

RECURSIVE BlockNameToIdxFrom(_, _, _)
BlockNameToIdxFrom(bs, i, m) ==
    IF i > Len(bs) THEN m
    ELSE BlockNameToIdxFrom(bs, i + 1, MapInsert(m, NameAt(bs, i), i))

\* maps a name to the 1-based index of its block
block_name_to_idx(is) == BlockNameToIdxFrom(expanded_basic_blocks(is), 1, EmptyMap)

\* the successors control_flow_graph gives to block i < Len(bs)
SuccessorsOf(bs, i) ==
    LET last == bs[i][Len(bs[i])] IN
    IF last.kind = "Effect" /\ last.op \in {"jmp", "br"} THEN last.labels
    ELSE <<NameAt(bs, i + 1)>>

RECURSIVE CfgFrom(_, _, _)
CfgFrom(bs, i, m) ==
    IF i > Len(bs) - 1 THEN MapInsert(m, NameAt(bs, Len(bs)), <<>>)
    ELSE CfgFrom(bs, i + 1, MapInsert(m, NameAt(bs, i), SuccessorsOf(bs, i)))

control_flow_graph(is) == CfgFrom(expanded_basic_blocks(is), 1, EmptyMap)

-----------------------------------------------------------------------------
(***************************************************************************)
(* The functions given to the CFG builder.  A well-formed function has     *)
(* each label once and jumps only to labels it holds.                      *)
(***************************************************************************)
LabelNames == {"A", "B", "f2"}
CfgCodes ==
    {Label(l) : l \in LabelNames}
    \cup {Effect("jmp", <<>>, <<l>>) : l \in {"A", "B"}}
    \cup {Effect("br", <<"x">>, <<"A", "B">>), Effect("ret", <<>>, <<>>),
          Effect("print", <<"x">>, <<>>), Constant("x", IntLit(1))}

LabelsIn(is) == {is[i].label : i \in {j \in DOMAIN is : is[j].kind = "Label"}}
WellFormed(is) ==
    /\ \A i, j \in DOMAIN is :
         (is[i].kind = "Label" /\ is[j].kind = "Label" /\ is[i].label = is[j].label)
            => i = j
    /\ \A i \in DOMAIN is : Range(is[i].labels) \subseteq LabelsIn(is)

Functions(n) == {is \in SeqsUpTo(CfgCodes, n) : WellFormed(is)}
CfgFunctions == Functions(MaxInstrs)

Idle ==
    /\ block_names = <<>> /\ last_dom = EmptyMap /\ frontier = EmptyMap
    /\ inputs = EmptyMap /\ outputs = EmptyMap /\ worklist = <<>>
    /\ folding = FALSE /\ lvn = EmptyMap /\ lvn_out = <<>>
    /\ first_out = <<>> /\ second_out = <<>>
    /\ dce_last = <<>>
    /\ dom_tree = EmptyMap /\ var_names = EmptyMap /\ name_counter = EmptyMap
    /\ rename_stack = <<>> /\ rename_visits = <<>>

InitCFG ==
    /\ instrs \in CfgFunctions
    /\ pc = "basic_blocks"
    /\ line = 1
    /\ blocks = <<>> /\ block = <<>>
    /\ cfg = EmptyMap /\ name2idx = EmptyMap
    /\ Idle

\* basic_blocks: the loop body, for a label
BasicBlocksLabel ==
    /\ pc = "basic_blocks" /\ line <= Len(instrs)
    /\ instrs[line].kind = "Label"
    /\ LET st == BBStep([blocks |-> blocks, block |-> block], instrs[line]) IN
         blocks' = st.blocks /\ block' = st.block
    /\ line' = line + 1
    /\ UNCHANGED <<ssaVars, dceVars, pc, instrs, cfgVars, domVars, rdVars, lvnVars>>

\* basic_blocks: the loop body, for an instruction
BasicBlocksInstruction ==
    /\ pc = "basic_blocks" /\ line <= Len(instrs)
    /\ instrs[line].kind # "Label"
    /\ LET st == BBStep([blocks |-> blocks, block |-> block], instrs[line]) IN
         blocks' = st.blocks /\ block' = st.block
    /\ line' = line + 1
    /\ UNCHANGED <<ssaVars, dceVars, pc, instrs, cfgVars, domVars, rdVars, lvnVars>>

\* basic_blocks: the flush after the loop, and the return
BasicBlocksReturn ==
    /\ pc = "basic_blocks" /\ line > Len(instrs)
    /\ LET st == BBFlush([blocks |-> blocks, block |-> block]) IN
         blocks' = st.blocks /\ block' = st.block
    /\ pc' = "control_flow_graph"
    /\ UNCHANGED <<ssaVars, dceVars, instrs, line, cfgVars, domVars, rdVars, lvnVars>>

\* control_flow_graph and block_name_to_idx of the function
ControlFlowGraph ==
    /\ pc = "control_flow_graph"
    /\ cfg' = control_flow_graph(instrs)
    /\ name2idx' = block_name_to_idx(instrs)
    /\ pc' = "cfg_done"
    /\ UNCHANGED <<ssaVars, dceVars, instrs, line, blocks, block, domVars, rdVars, lvnVars>>

NextCFG ==
    \/ BasicBlocksLabel
    \/ BasicBlocksInstruction
    \/ BasicBlocksReturn
    \/ ControlFlowGraph

SpecCFG == InitCFG /\ [][NextCFG]_vars

-----------------------------------------------------------------------------
(***************************************************************************)
(* util.rs and analyze.rs: dominators and the dominance frontier.          *)
(***************************************************************************)
\* invert_digraph and invert_hashset: each key's set of the keys that hold it.
\* The callers only test membership or fold commutatively, so the result's
\* order is left out.
invert_digraph(graph) ==
    [node \in DOMAIN graph |-> {key \in DOMAIN graph : node \in Range(graph[key])}]
invert_hashset(graph) ==
    [node \in DOMAIN graph |-> {key \in DOMAIN graph : node \in graph[key]}]

\* the orders HashMap::keys() may give
KeyOrders(m) ==
    {s \in [1..Cardinality(DOMAIN m) -> DOMAIN m] : Range(s) = DOMAIN m}

\* Iterator::reduce with HashSet::intersection over a non-empty set of sets
ReduceIntersection(sets) == {x \in UNION sets : \A t \in sets : x \in t}

\* (mutant) an unreachable predecessor is left out of the intersection
DomUpdate_skip(doms, predecessors, b) ==
    LET sets == {doms[v] : v \in {w \in DOMAIN doms :
                    b \in DOMAIN predecessors /\ w \in predecessors[b]
                    /\ doms[w] # {w}}}
    IN  MapInsert(doms, b, IF sets = {} THEN {b}
                           ELSE {b} \cup ReduceIntersection(sets))

\* the body of the for loop of dominators, for one block
DomUpdate(doms, predecessors, b) ==
    LET sets == {doms[v] : v \in {w \in DOMAIN doms :
                    b \in DOMAIN predecessors /\ w \in predecessors[b]}}
    IN  MapInsert(doms, b, IF sets = {} THEN {b}
                           ELSE {b} \cup ReduceIntersection(sets))

\* the for loop of dominators over block_names: the map is updated in place
RECURSIVE DomPass(_, _, _)
DomPass(doms, predecessors, names) ==
    IF names = <<>> THEN doms
    ELSE DomPass(DomUpdate(doms, predecessors, Head(names)), predecessors,
                 Tail(names))

\* dominance_frontier, given the result of dominators
dominance_frontier(successors, doms) ==
    LET predecessors == invert_digraph(successors)
        dom_map == invert_hashset(doms)
    IN  [dom \in DOMAIN dom_map |->
            {b \in DOMAIN predecessors :
                /\ \E p \in predecessors[b] : p \in dom_map[dom]
                /\ b \notin dom_map[dom]}]

\* the diamond entry -> {A, B} -> J of the spec's scenario, each of A, B and
\* J holding nothing or one definition
DiamondBodies == {<<>>, <<Constant("x", IntLit(1))>>, <<Constant("y", IntLit(1))>>}
Diamond(a, b, j) ==
    <<Effect("br", <<"c">>, <<"A", "B">>), Label("A")>> \o a
    \o <<Effect("jmp", <<>>, <<"J">>), Label("B")>> \o b \o <<Label("J")>> \o j
DiamondFunctions ==
    {Diamond(a, b, j) : a \in DiamondBodies, b \in DiamondBodies, j \in DiamondBodies}

\* the join of a diamond, its blocks empty, and a loop around one block
DomDiamonds ==
    {Diamond(<<>>, <<>>, <<>>),
     Diamond(<<>>, <<>>, <<Effect("jmp", <<>>, <<"A">>)>>)}

\* dominator_tree, given the result of dominators: the children of a block
\* are the blocks it dominates that have it as a CFG predecessor.  The order
\* of a Vec of children is drawn where rename iterates over it.
dominator_tree(successors, doms) ==
    LET predecessors == invert_digraph(successors)
    IN  [blk \in DOMAIN doms |->
            {node \in DOMAIN predecessors :
                blk \in doms[node] /\ blk \in predecessors[node]}]

DomFunctions == Functions(MaxDomInstrs) \cup DomDiamonds

InitDom ==
    /\ instrs \in DomFunctions
    /\ pc = "dominators"
    /\ line = 1 /\ blocks = <<>> /\ block = <<>>
    /\ cfg = EmptyMap /\ name2idx = EmptyMap
    /\ Idle

\* dominators: the CFG, the key order and the initial map
DominatorsInit ==
    /\ pc = "dominators"
    /\ cfg' = control_flow_graph(instrs)
    /\ block_names' \in KeyOrders(cfg')
    /\ last_dom' = [b \in DOMAIN cfg' |-> DOMAIN cfg']
    /\ pc' = "dominators_loop"
    /\ UNCHANGED <<ssaVars, dceVars, instrs, line, blocks, block, name2idx, frontier, rdVars, lvnVars>>

\* dominators: one iteration of the outer loop that changes the map
DominatorsIterate ==
    /\ pc = "dominators_loop"
    /\ LET dominators == DomPass(last_dom, invert_digraph(cfg), block_names) IN
         /\ dominators # last_dom
         /\ last_dom' = dominators
    /\ UNCHANGED <<ssaVars, dceVars, pc, instrs, line, blocks, block, cfgVars, block_names,
                   frontier, rdVars, lvnVars>>

\* dominators: the iteration that changes nothing, and the return
DominatorsReturn ==
    /\ pc = "dominators_loop"
    /\ DomPass(last_dom, invert_digraph(cfg), block_names) = last_dom
    /\ pc' = "dominance_frontier"
    /\ UNCHANGED <<ssaVars, dceVars, instrs, line, blocks, block, cfgVars, domVars, rdVars, lvnVars>>

\* dominance_frontier, from the dominators computed
DominanceFrontier ==
    /\ pc = "dominance_frontier"
    /\ frontier' = dominance_frontier(cfg, last_dom)
    /\ pc' = "dom_done"
    /\ UNCHANGED <<ssaVars, dceVars, instrs, line, blocks, block, cfgVars, block_names, last_dom,
                   rdVars, lvnVars>>

\* dominator_tree, from the dominators computed
DominatorTree ==
    /\ pc = "dom_done"
    /\ dom_tree' = dominator_tree(cfg, last_dom)
    /\ pc' = "dominator_tree_done"
    /\ UNCHANGED <<var_names, name_counter, rename_stack, rename_visits, dceVars,
                   instrs, line, blocks, block, cfgVars, domVars, rdVars, lvnVars>>

NextDom ==
    \/ DominatorsInit
    \/ DominatorsIterate
    \/ DominatorsReturn
    \/ DominanceFrontier
    \/ DominatorTree

SpecDom == InitDom /\ [][NextDom]_vars

-----------------------------------------------------------------------------
(***************************************************************************)
(* analyze.rs (and its copy dataflow.rs): reaching definitions.            *)
(***************************************************************************)
Definition(n, b, l) == [name |-> n, block |-> b, line |-> l]

\* `defined` of transfer: a Definition for every Constant and Value of the
\* block, with its 0-based line
Defined(blk, b) ==
    {Definition(blk[i].dest, b, i - 1) : i \in {j \in DOMAIN blk : HasDest(blk[j])}}

\* the names the block defines that have a definition in input
KilledNames(blk, input) ==
    {blk[i].dest : i \in {j \in DOMAIN blk : HasDest(blk[j])}}
        \cap {d.name : d \in input}

\* What input.iter().find(|d| &d.name == dest) may return for each name: the
\* first definition of that name in the iteration order of the HashSet, which
\* is any one of them, the same one during a call.
FindChoices(blk, input) ==
    {f \in [KilledNames(blk, input) -> input] :
        \A n \in KilledNames(blk, input) : f[n].name = n}

\* the results transfer(b, input) may give
TransferResults(blk, b, input) ==
    {Defined(blk, b) \cup (input \ {f[n] : n \in DOMAIN f}) :
        f \in FindChoices(blk, input)}

\* the merge: the union of the outputs of the predecessors
Merge(outs, predecessors, b) == UNION {outs[p] : p \in predecessors[b]}

RdCodes ==
    {Label(l) : l \in {"A", "B"}}
    \cup {Effect("jmp", <<>>, <<"A">>), Effect("br", <<"x">>, <<"A", "B">>),
          Constant("x", IntLit(1)), Constant("y", IntLit(1))}

\* loops around a block that redefines x and is reached by two definitions
\* of x from outside
RdLoops ==
    {<<Constant("x", IntLit(1)), Constant("x", IntLit(2)), Label("A"),
       Constant("x", IntLit(3)), Effect("jmp", <<>>, <<"A">>)>>,
     Diamond(<<Constant("x", IntLit(1))>>, <<Constant("x", IntLit(2))>>,
             <<Constant("x", IntLit(3)), Effect("jmp", <<>>, <<"J">>)>>)}

RdFunctions ==
    {is \in SeqsUpTo(RdCodes, MaxRDInstrs) : WellFormed(is)} \cup DiamondFunctions

InitRD ==
    /\ instrs \in RdFunctions
    /\ pc = "reaching_definitions"
    /\ line = 1 /\ blocks = <<>> /\ block = <<>>
    /\ cfg = EmptyMap /\ name2idx = EmptyMap
    /\ Idle

\* reaching_definitions up to the worklist loop
ReachingDefinitionsInit ==
    /\ pc = "reaching_definitions"
    /\ cfg' = control_flow_graph(instrs)
    /\ name2idx' = block_name_to_idx(instrs)
    /\ blocks' = expanded_basic_blocks(instrs)
    /\ block_names' \in KeyOrders(name2idx')
    /\ inputs' = MapInsert(EmptyMap, "entry", {})
    /\ outputs' = [key \in DOMAIN name2idx' |-> {}]
    /\ worklist' = block_names'
    /\ pc' = "worklist"
    /\ UNCHANGED <<ssaVars, dceVars, instrs, line, block, last_dom, frontier, lvnVars>>

\* one iteration of the worklist loop in which the output of b changes
WorklistChanged ==
    /\ pc = "worklist" /\ worklist # <<>>
    /\ LET b == worklist[Len(worklist)]
           rest == SubSeq(worklist, 1, Len(worklist) - 1)
           input == Merge(outputs, invert_digraph(cfg), b)
       IN  /\ inputs' = MapInsert(inputs, b, input)
           /\ \E new_output \in TransferResults(blocks[name2idx[b]], b, input) :
                /\ new_output # outputs[b]
                /\ worklist' = rest \o cfg[b]
                /\ Len(worklist') <= MaxWorklist
                /\ outputs' = MapInsert(outputs, b, new_output)
    /\ UNCHANGED <<ssaVars, dceVars, pc, instrs, line, blocks, block, cfgVars, domVars, lvnVars>>

\* one iteration of the worklist loop in which the output of b stays
WorklistUnchanged ==
    /\ pc = "worklist" /\ worklist # <<>>
    /\ LET b == worklist[Len(worklist)]
           rest == SubSeq(worklist, 1, Len(worklist) - 1)
           input == Merge(outputs, invert_digraph(cfg), b)
       IN  /\ inputs' = MapInsert(inputs, b, input)
           /\ outputs[b] \in TransferResults(blocks[name2idx[b]], b, input)
           /\ worklist' = rest
    /\ UNCHANGED <<ssaVars, dceVars, pc, instrs, line, blocks, block, cfgVars, domVars, outputs,
                   lvnVars>>

\* the worklist is empty: the map of (inputs, outputs) is returned
ReachingDefinitionsReturn ==
    /\ pc = "worklist" /\ worklist = <<>>
    /\ pc' = "rd_done"
    /\ UNCHANGED <<ssaVars, dceVars, instrs, line, blocks, block, cfgVars, domVars, rdVars, lvnVars>>

NextRD ==
    \/ ReachingDefinitionsInit
    \/ WorklistChanged
    \/ WorklistUnchanged
    \/ ReachingDefinitionsReturn

SpecRD == InitRD /\ [][NextRD]_vars

\* reaching_definitions on the loops
InitRDLoop ==
    /\ instrs \in RdLoops
    /\ pc = "reaching_definitions"
    /\ line = 1 /\ blocks = <<>> /\ block = <<>>
    /\ cfg = EmptyMap /\ name2idx = EmptyMap
    /\ Idle

SpecRDLoop == InitRDLoop /\ [][NextRD]_vars

-----------------------------------------------------------------------------
(***************************************************************************)
(* lvn.rs: the LVN struct and its methods.  Types (const_type, op_type) and *)
(* positions are left out: no method reads them.                            *)
(***************************************************************************)
\* enum LVNValue
LConstant(lit) == [tag |-> "Constant", lit |-> lit, op |-> "", n0 |-> 0, n1 |-> 0]
ValueBinaryOp(o, a, b) == [tag |-> "Binary", lit |-> NoLit, op |-> o, n0 |-> a, n1 |-> b]
ValueUnaryOp(o, a) == [tag |-> "Unary", lit |-> NoLit, op |-> o, n0 |-> a, n1 |-> 0]

LVN_new(f) ==
    [next |-> 0, folding |-> f, var2num |-> EmptyMap, val2num |-> EmptyMap,
     num2var |-> EmptyMap, num2const |-> EmptyMap]

\* format!("lvn.{}", num)
LvnName(num) == "lvn." \o ToString(num)

\* last_writes: whether instruction i is the last one of the block to write
\* its destination
last_writes(blk) ==
    [i \in DOMAIN blk |->
        /\ HasDest(blk[i])
        /\ \A j \in DOMAIN blk : (j > i /\ HasDest(blk[j])) => blk[j].dest # blk[i].dest]

\* written before instruction i, as read_first tracks it
WrittenBefore(blk, i) == {blk[j].dest : j \in {k \in 1..(i - 1) : HasDest(blk[k])}}

\* read_first: the arguments of Value instructions not written before
read_first(blk) ==
    UNION {Range(blk[i].args) \ WrittenBefore(blk, i) :
              i \in {j \in DOMAIN blk : blk[j].kind = "Value"}}

\* register_var: the LVN after it; the number it returns is l.next
register_var(l, var) ==
    [l EXCEPT !.next = @ + 1, !.var2num = MapInsert(@, var, l.next)]

\* (mutant) every destination keeps its name
DestName_keep(dest, num, last_write) == dest

\* register_dest: the name it returns
DestName(dest, num, last_write) == IF last_write THEN dest ELSE LvnName(num)

register_dest(l, dest, num, last_write) ==
    [l EXCEPT !.num2var = MapInsert(@, num, DestName(dest, num, last_write))]

\* Rust's integer division, which truncates toward zero
TruncDiv(a, b) ==
    LET q == (IF a < 0 THEN -a ELSE a) \div (IF b < 0 THEN -b ELSE b)
    IN  IF (a < 0) # (b < 0) THEN -q ELSE q

None == [some |-> FALSE, lit |-> NoLit]
Some(lit) == [some |-> TRUE, lit |-> lit]

\* (mutant) a division by zero folds to 0
calculate_binary_op_divzero(o, arg0, arg1) ==
    IF arg0.ty = "int" /\ arg1.ty = "int" THEN
        CASE o = "add" -> Some(IntLit(arg0.v + arg1.v))
          [] o = "sub" -> Some(IntLit(arg0.v - arg1.v))
          [] o = "mul" -> Some(IntLit(arg0.v * arg1.v))
          [] o = "div" -> IF arg1.v = 0 THEN Some(IntLit(0))
                          ELSE Some(IntLit(TruncDiv(arg0.v, arg1.v)))
          [] OTHER -> None
    ELSE None

calculate_binary_op(o, arg0, arg1) ==
    IF arg0.ty = "int" /\ arg1.ty = "int" THEN
        CASE o = "add" -> Some(IntLit(arg0.v + arg1.v))
          [] o = "sub" -> Some(IntLit(arg0.v - arg1.v))
          [] o = "mul" -> Some(IntLit(arg0.v * arg1.v))
          [] o = "div" -> IF arg1.v = 0 THEN None
                          ELSE Some(IntLit(TruncDiv(arg0.v, arg1.v)))
          [] o = "eq" -> Some(BoolLit(arg0.v = arg1.v))
          [] o = "lt" -> Some(BoolLit(arg0.v < arg1.v))
          [] o = "gt" -> Some(BoolLit(arg0.v > arg1.v))
          [] o = "le" -> Some(BoolLit(arg0.v <= arg1.v))
          [] o = "ge" -> Some(BoolLit(arg0.v >= arg1.v))
          [] o = "and" -> Some(BoolLit(arg0.v # 0 /\ arg1.v # 0))
          [] o = "or" -> Some(BoolLit(arg0.v # 0 \/ arg1.v # 0))
          [] OTHER -> None
    ELSE IF arg0.ty = "bool" /\ arg1.ty = "bool" THEN
        CASE o = "eq" -> Some(BoolLit(arg0.v = arg1.v))
          [] o = "lt" -> Some(BoolLit(arg0.v < arg1.v))
          [] o = "gt" -> Some(BoolLit(arg0.v > arg1.v))
          [] o = "le" -> Some(BoolLit(arg0.v <= arg1.v))
          [] o = "ge" -> Some(BoolLit(arg0.v >= arg1.v))
          [] o = "and" -> Some(BoolLit(arg0.v = 1 /\ arg1.v = 1))
          [] o = "or" -> Some(BoolLit(arg0.v = 1 \/ arg1.v = 1))
          [] OTHER -> None
    ELSE None

calculate_unary_op(o, arg) ==
    IF o # "not" THEN None
    ELSE IF arg.ty = "int" THEN Some(BoolLit(arg.v = 0))
    ELSE Some(BoolLit(arg.v = 0))

\* fold_value: the LVN after it
fold_value(l, val_num, val) ==
    LET known(n) == n \in DOMAIN l.num2const
        is(n, lit) == known(n) /\ l.num2const[n] = lit
        set(lit) == [l EXCEPT !.num2const = MapInsert(@, val_num, lit)]
    IN  CASE val.tag = "Constant" -> set(val.lit)
          [] val.tag = "Binary" ->
                IF known(val.n0) /\ known(val.n1)
                THEN LET r == calculate_binary_op(val.op, l.num2const[val.n0],
                                                  l.num2const[val.n1])
                     IN  IF r.some THEN set(r.lit) ELSE l
                ELSE IF val.n0 = val.n1
                THEN IF val.op \in {"eq", "le", "ge"} THEN set(BoolLit(TRUE)) ELSE l
                ELSE IF val.op = "or" /\ (is(val.n0, BoolLit(TRUE)) \/ is(val.n1, BoolLit(TRUE)))
                THEN set(BoolLit(TRUE))
                ELSE IF val.op = "and" /\ (is(val.n0, BoolLit(FALSE)) \/ is(val.n1, BoolLit(FALSE)))
                THEN set(BoolLit(FALSE))
                ELSE l
          [] val.tag = "Unary" ->
                IF known(val.n0)
                THEN LET r == calculate_unary_op(val.op, l.num2const[val.n0])
                     IN  IF r.some THEN set(r.lit) ELSE l
                ELSE l

\* (mutant) no value number has a constant to fold to
get_const_if_fold_never(l, num) == None

\* get_const_if_fold
get_const_if_fold(l, num) ==
    IF ~l.folding THEN None
    ELSE IF num \in DOMAIN l.num2const THEN Some(l.num2const[num]) ELSE None

\* whether var2num.get(arg).unwrap() succeeds for the first n arguments
ArgsKnown(l, as, n) ==
    Len(as) >= n /\ \A i \in 1..n : as[i] \in DOMAIN l.var2num

\* canonicalize_instruction: [some, val]; it panics where Panics holds
CanonicalPanics(l, c) ==
    /\ c.kind = "Value" /\ c.op # "call"
    /\ ~ArgsKnown(l, c.args, IF c.op \in {"not", "id"} THEN 1 ELSE 2)

canonicalize_instruction(l, c) ==
    CASE c.kind = "Constant" -> [some |-> TRUE, val |-> LConstant(c.value)]
      [] c.kind = "Value" /\ c.op \in {"not", "id"} ->
            [some |-> TRUE, val |-> ValueUnaryOp(c.op, l.var2num[c.args[1]])]
      [] c.kind = "Value" /\ c.op \notin {"not", "id", "call"} ->
            LET a == l.var2num[c.args[1]]
                b == l.var2num[c.args[2]]
            IN  [some |-> TRUE,
                 val |-> IF c.op \in {"add", "mul"} /\ a > b
                         THEN ValueBinaryOp(c.op, b, a)
                         ELSE ValueBinaryOp(c.op, a, b)]
      [] OTHER -> [some |-> FALSE, val |-> LConstant(NoLit)]

\* replace_args
replace_args(l, as) == [i \in DOMAIN as |-> l.num2var[l.var2num[as[i]]]]

generate_copy_instruction(l, value_number, dest) ==
    Value("id", dest, <<l.num2var[value_number]>>)

generate_const_instruction(value, dest) == Constant(dest, value)

\* generate_optimized_instruction, where it does not panic
generate_optimized_instruction(l, c, dest) ==
    CASE c.kind = "Label" -> c
      [] c.kind = "Constant" -> [c EXCEPT !.dest = dest]
      [] c.kind = "Value" -> [c EXCEPT !.dest = dest, !.args = replace_args(l, c.args)]
      [] c.kind = "Effect" -> [c EXCEPT !.args = replace_args(l, c.args)]

\* whether optimize_instruction panics: an unwrap of None in
\* canonicalize_instruction, in replace_args, or of the destination of a call
OptimizePanics(l, c) ==
    \/ CanonicalPanics(l, c)
    \/ c.kind = "Value" /\ c.op = "call"
    \/ c.kind = "Effect" /\ ~ArgsKnown(l, c.args, Len(c.args))

\* optimize_instruction where it does not panic: the LVN after it and the
\* instruction it returns
optimize_instruction(l, c, last_write) ==
    LET canon == canonicalize_instruction(l, c) IN
    IF ~canon.some
    THEN [lvn |-> l, out |-> generate_optimized_instruction(l, c, "")]
    ELSE IF canon.val.tag = "Unary" /\ canon.val.op = "id"
    THEN [lvn |-> [l EXCEPT !.var2num = MapInsert(@, c.dest, canon.val.n0)],
          out |-> generate_copy_instruction(l, canon.val.n0, c.dest)]
    ELSE IF canon.val \in DOMAIN l.val2num
    THEN LET val_num == l.val2num[canon.val]
             l1 == [l EXCEPT !.var2num = MapInsert(@, c.dest, val_num)]
             k == get_const_if_fold(l1, val_num)
         IN  [lvn |-> l1,
              out |-> IF k.some THEN generate_const_instruction(k.lit, c.dest)
                      ELSE generate_copy_instruction(l1, val_num, c.dest)]
    ELSE \* register_val
         LET val_num == l.next
             l1 == register_var(l, c.dest)
             l2 == fold_value(l1, val_num, canon.val)
             l3 == [l2 EXCEPT !.val2num = MapInsert(@, canon.val, val_num)]
             l4 == register_dest(l3, c.dest, val_num, last_write)
             dest == DestName(c.dest, val_num, last_write)
             k == get_const_if_fold(l4, val_num)
         IN  [lvn |-> l4,
              out |-> IF k.some THEN generate_const_instruction(k.lit, dest)
                      ELSE generate_optimized_instruction(l4, c, dest)]

\* the preamble of lvn_block: register_var and register_dest for every
\* variable of read_first, in the order `order` of the HashSet
RECURSIVE Preamble(_, _)
Preamble(l, order) ==
    IF order = <<>> THEN l
    ELSE Preamble(register_dest(register_var(l, Head(order)), Head(order), l.next, TRUE),
                  Tail(order))

SetOrders(S) == {s \in [1..Cardinality(S) -> S] : Range(s) = S}

-----------------------------------------------------------------------------
(***************************************************************************)
(* optimize.rs: lvn_block, run on a block and then on its own result.      *)
(***************************************************************************)
LvnVars == {"x", "y"}
LvnCodes ==
    {Constant(d, IntLit(1)) : d \in LvnVars}
    \cup {Value("id", d, <<a>>) : d \in LvnVars, a \in LvnVars}
    \cup {Value("add", d, <<a, b>>) : d \in LvnVars, a \in LvnVars, b \in LvnVars}
    \cup {Effect("print", <<a>>, <<>>) : a \in LvnVars}

LvnBlocks == SeqsUpTo(LvnCodes, MaxLvnLen)

\* blocks that compute z from x and y, and then w from x, y and z, with x and
\* y live-in or constants
FoldLits == {IntLit(0), IntLit(2), BoolLit(TRUE)}
FoldCodes(d, S) ==
    {Value(o, d, <<a, b>>) :
        o \in {"add", "sub", "mul", "div", "eq", "lt", "and", "or"}, a \in S, b \in S}
    \cup {Value(o, d, <<a>>) : o \in {"not", "id"}, a \in S}
FoldPrefixes ==
    {<<>>} \cup {<<Constant("x", k1), Constant("y", k2)>> : k1 \in FoldLits, k2 \in FoldLits}
FoldBlocks ==
    {p \o <<c1>> \o t :
        p \in FoldPrefixes,
        c1 \in FoldCodes("z", {"x", "y"}),
        t \in {<<>>} \cup {<<c2>> : c2 \in FoldCodes("w", {"x", "y", "z"})}}

\* the block the running lvn_block call was given
LvnInput == IF pc \in {"lvn_block", "lvn_loop"} THEN instrs ELSE first_out

InitLVN ==
    /\ instrs \in LvnBlocks \cup FoldBlocks
    /\ folding \in BOOLEAN
    /\ pc = "lvn_block"
    /\ line = 1 /\ blocks = <<>> /\ block = <<>>
    /\ cfg = EmptyMap /\ name2idx = EmptyMap
    /\ block_names = <<>> /\ last_dom = EmptyMap /\ frontier = EmptyMap
    /\ inputs = EmptyMap /\ outputs = EmptyMap /\ worklist = <<>>
    /\ lvn = EmptyMap /\ lvn_out = <<>>
    /\ first_out = <<>> /\ second_out = <<>>
    /\ dce_last = <<>>
    /\ dom_tree = EmptyMap /\ var_names = EmptyMap /\ name_counter = EmptyMap
    /\ rename_stack = <<>> /\ rename_visits = <<>>

\* lvn_block: LVN::new and the preamble over read_first(block)
LvnBlockPreamble ==
    /\ pc \in {"lvn_block", "lvn_again"}
    /\ \E order \in SetOrders(read_first(LvnInput)) :
         lvn' = Preamble(LVN_new(folding), order)
    /\ lvn_out' = <<>>
    /\ line' = 1
    /\ pc' = IF pc = "lvn_block" THEN "lvn_loop" ELSE "lvn_again_loop"
    /\ UNCHANGED <<ssaVars, dceVars, instrs, blocks, block, cfgVars, domVars, rdVars, folding,
                   first_out, second_out>>

\* lvn_block: optimize_instruction on the next instruction of the block
LvnOptimizeInstruction ==
    /\ pc \in {"lvn_loop", "lvn_again_loop"}
    /\ line <= Len(LvnInput)
    /\ ~OptimizePanics(lvn, LvnInput[line])
    /\ LET r == optimize_instruction(lvn, LvnInput[line], last_writes(LvnInput)[line])
       IN  lvn' = r.lvn /\ lvn_out' = Append(lvn_out, r.out)
    /\ line' = line + 1
    /\ UNCHANGED <<ssaVars, dceVars, pc, instrs, blocks, block, cfgVars, domVars, rdVars, folding,
                   first_out, second_out>>

\* lvn_block: optimize_instruction panics on an unwrap of None
LvnPanic ==
    /\ pc \in {"lvn_loop", "lvn_again_loop"}
    /\ line <= Len(LvnInput)
    /\ OptimizePanics(lvn, LvnInput[line])
    /\ pc' = IF pc = "lvn_loop" THEN "lvn_panic" ELSE "lvn_again_panic"
    /\ UNCHANGED <<ssaVars, dceVars, instrs, line, blocks, block, cfgVars, domVars, rdVars, lvnVars>>

\* the first lvn_block returns; lvn_block is called on its result
LvnBlockReturn ==
    /\ pc = "lvn_loop" /\ line > Len(instrs)
    /\ first_out' = lvn_out
    /\ pc' = "lvn_again"
    /\ UNCHANGED <<ssaVars, dceVars, instrs, line, blocks, block, cfgVars, domVars, rdVars, folding,
                   lvn, lvn_out, second_out>>

\* the second lvn_block returns
LvnBlockReturnAgain ==
    /\ pc = "lvn_again_loop" /\ line > Len(first_out)
    /\ second_out' = lvn_out
    /\ pc' = "lvn_done"
    /\ UNCHANGED <<ssaVars, dceVars, instrs, line, blocks, block, cfgVars, domVars, rdVars, folding,
                   lvn, lvn_out, first_out>>

NextLVN ==
    \/ LvnBlockPreamble
    \/ LvnOptimizeInstruction
    \/ LvnPanic
    \/ LvnBlockReturn
    \/ LvnBlockReturnAgain

SpecLVN == InitLVN /\ [][NextLVN]_vars

-----------------------------------------------------------------------------
(***************************************************************************)
(* optimize.rs: dead_variable_elim, one action per iteration of its loop.  *)
(***************************************************************************)
\* used_vars: the arguments of the Value and Effect instructions
used_vars(is) == UNION {Range(is[i].args) : i \in {j \in DOMAIN is : HasArgs(is[j])}}

\* (mutant) the filter keeps the used definitions only
DveKeep_defs(c, used) == HasDest(c) /\ c.dest \in used

\* the filter closure: a Constant or Value stays when its dest is used
DveKeep(c, used) == HasDest(c) => c.dest \in used

RECURSIVE DveFilter(_, _)
DveFilter(is, used) ==
    IF is = <<>> THEN <<>>
    ELSE (IF DveKeep(Head(is), used) THEN <<Head(is)>> ELSE <<>>)
         \o DveFilter(Tail(is), used)

\* func.instrs of one iteration
DvePass(is) == DveFilter(is, used_vars(is))

DveCodes ==
    {Label("A"), Effect("jmp", <<>>, <<"A">>),
     Constant("x", IntLit(1)), Constant("y", IntLit(1)),
     Value("id", "x", <<"y">>), Value("id", "y", <<"x">>), Value("add", "x", <<"x", "y">>),
     Effect("print", <<"x">>, <<>>), Effect("print", <<"y">>, <<>>)}
DveFunctions == SeqsUpTo(DveCodes, MaxDveLen)

InitDVE ==
    /\ instrs \in DveFunctions
    /\ pc = "dead_variable_elim"
    /\ line = 1 /\ blocks = <<>> /\ block = <<>>
    /\ cfg = EmptyMap /\ name2idx = EmptyMap
    /\ Idle

\* let mut last = f.clone()
DeadVariableElimClone ==
    /\ pc = "dead_variable_elim"
    /\ dce_last' = instrs
    /\ pc' = "dve_loop"
    /\ UNCHANGED <<ssaVars, instrs, line, blocks, block, cfgVars, domVars, rdVars, lvnVars>>

\* an iteration with func != last
DeadVariableElimPass ==
    /\ pc = "dve_loop"
    /\ DvePass(dce_last) # dce_last
    /\ dce_last' = DvePass(dce_last)
    /\ UNCHANGED <<ssaVars, pc, instrs, line, blocks, block, cfgVars, domVars, rdVars, lvnVars>>

\* the iteration with func == last: break and return last
DeadVariableElimReturn ==
    /\ pc = "dve_loop"
    /\ DvePass(dce_last) = dce_last
    /\ pc' = "dve_done"
    /\ UNCHANGED <<ssaVars, dceVars, instrs, line, blocks, block, cfgVars, domVars, rdVars, lvnVars>>

NextDVE ==
    \/ DeadVariableElimClone
    \/ DeadVariableElimPass
    \/ DeadVariableElimReturn

\* the loop is sequential code: it always takes its next step
SpecDVE == InitDVE /\ [][NextDVE]_vars /\ WF_vars(NextDVE)

-----------------------------------------------------------------------------
(***************************************************************************)
(* optimize.rs: dead_store_elim, one action per iteration of its loop.     *)
(* Indices are those of Rust plus one.                                     *)
(***************************************************************************)
\* Vec::remove
RemoveAt(s, i) == [k \in 1..(Len(s) - 1) |-> IF k < i THEN s[k] ELSE s[k + 1]]
MapRemove(m, K) == [x \in DOMAIN m \ K |-> m[x]]

\* the fold closure on (i, instr): first the uses, then the definition;
\* Vec::remove panics on an index that is not in the block
DseStep(st, i, instr) ==
    LET unused == IF HasArgs(instr) THEN MapRemove(st.unused_defs, Range(instr.args))
                  ELSE st.unused_defs
    IN  IF st.panic \/ ~HasDest(instr) THEN [st EXCEPT !.unused_defs = unused]
        ELSE IF instr.dest \in DOMAIN unused /\ unused[instr.dest] > Len(st.block)
        THEN [st EXCEPT !.panic = TRUE]
        ELSE [block |-> IF instr.dest \in DOMAIN unused
                        THEN RemoveAt(st.block, unused[instr.dest])
                        ELSE st.block,
              unused_defs |-> MapInsert(unused, instr.dest, i),
              panic |-> FALSE]

RECURSIVE DseFold(_, _, _)
DseFold(is, i, st) ==
    IF i > Len(is) THEN st ELSE DseFold(is, i + 1, DseStep(st, i, is[i]))

\* one iteration of the loop on `last`
DsePass(is) == DseFold(is, 1, [block |-> is, unused_defs |-> EmptyMap, panic |-> FALSE])

DseCodes ==
    {Constant(d, IntLit(k)) : d \in LvnVars, k \in {1, 2}}
    \cup {Value("id", "x", <<"y">>), Value("add", "y", <<"x", "x">>)}
    \cup {Effect("print", <<a>>, <<>>) : a \in LvnVars}
DseBlocks == SeqsUpTo(DseCodes, MaxDseLen)

InitDSE ==
    /\ instrs \in DseBlocks
    /\ pc = "dead_store_elim"
    /\ line = 1 /\ blocks = <<>> /\ block = <<>>
    /\ cfg = EmptyMap /\ name2idx = EmptyMap
    /\ Idle

\* let mut last = b.clone()
DeadStoreElimClone ==
    /\ pc = "dead_store_elim"
    /\ dce_last' = instrs
    /\ pc' = "dse_loop"
    /\ UNCHANGED <<ssaVars, instrs, line, blocks, block, cfgVars, domVars, rdVars, lvnVars>>

\* an iteration with block != last
DeadStoreElimPass ==
    /\ pc = "dse_loop"
    /\ ~DsePass(dce_last).panic
    /\ DsePass(dce_last).block # dce_last
    /\ dce_last' = DsePass(dce_last).block
    /\ UNCHANGED <<ssaVars, pc, instrs, line, blocks, block, cfgVars, domVars, rdVars, lvnVars>>

\* an iteration in which block.remove panics
DeadStoreElimPanic ==
    /\ pc = "dse_loop"
    /\ DsePass(dce_last).panic
    /\ pc' = "dse_panic"
    /\ UNCHANGED <<ssaVars, dceVars, instrs, line, blocks, block, cfgVars, domVars, rdVars, lvnVars>>

\* the iteration with block == last: break and return last
DeadStoreElimReturn ==
    /\ pc = "dse_loop"
    /\ ~DsePass(dce_last).panic
    /\ DsePass(dce_last).block = dce_last
    /\ pc' = "dse_done"
    /\ UNCHANGED <<ssaVars, dceVars, instrs, line, blocks, block, cfgVars, domVars, rdVars, lvnVars>>

NextDSE ==
    \/ DeadStoreElimClone
    \/ DeadStoreElimPass
    \/ DeadStoreElimPanic
    \/ DeadStoreElimReturn

SpecDSE == InitDSE /\ [][NextDSE]_vars

-----------------------------------------------------------------------------
(***************************************************************************)
(* ssa.rs: convert_to_ssa.  The types of the instructions are left out:    *)
(* no step of the conversion reads them.  The functions converted take no  *)
(* arguments.                                                              *)
(***************************************************************************)
IsPhi(c) == c.kind = "Value" /\ c.op = "phi"

\* the phi convert_to_ssa inserts: no args, no labels
Phi(var) == Value("phi", var, <<>>)

\* dominators run to its end.  The result does not depend on the order of
\* keys() (C20), so the order of the blocks is taken.
RECURSIVE DomLoop(_, _, _)
DomLoop(doms, predecessors, names) ==
    LET next == DomPass(doms, predecessors, names)
    IN  IF next = doms THEN doms ELSE DomLoop(next, predecessors, names)

dominators(bs, successors) ==
    DomLoop([b \in DOMAIN successors |-> DOMAIN successors],
            invert_digraph(successors), [i \in DOMAIN bs |-> NameAt(bs, i)])

orig_var_names(is) == {is[i].dest : i \in {j \in DOMAIN is : HasDest(is[j])}}

\* the blocks orig_var_block_names pairs with var
DefBlocks(bs, var) ==
    {NameAt(bs, i) : i \in {k \in DOMAIN bs :
        \E j \in DOMAIN bs[k] : HasDest(bs[k][j]) /\ bs[k][j].dest = var}}

\* var_defs[var]: the name of the block of every definition of var, in order
var_defs(bs, var) ==
    Concat([i \in DOMAIN bs |->
        LET ds == SelectSeq(bs[i], LAMBDA c : HasDest(c) /\ c.dest = var)
        IN  [k \in DOMAIN ds |-> NameAt(bs, i)]])

\* Vec::insert before the idx-th (1-based) item
InsertAt(s, idx, e) == SubSeq(s, 1, idx - 1) \o <<e>> \o SubSeq(s, idx, Len(s))

\* the body of the innermost loop of phi placement
InsertPhi(bs, block_map, var, sub_block_name) ==
    LET sub_block_idx == block_map[sub_block_name]
        blk == bs[sub_block_idx]
        labelled == blk[1].kind = "Label"
        phi_idx == IF labelled THEN 2 ELSE 1
    IN  IF labelled /\ Len(blk) < 2 THEN bs
        ELSE IF labelled /\ IsPhi(blk[2]) THEN bs
        ELSE IF \E k \in DOMAIN blk : IsPhi(blk[k]) /\ blk[k].dest = var THEN bs
        ELSE [bs EXCEPT ![sub_block_idx] = InsertAt(blk, phi_idx, Phi(var))]

\* the loop over frontier[def_block_name]: every pass changes another block,
\* so the order of the HashSet does not change the result
RECURSIVE PhisInFrontier(_, _, _, _)
PhisInFrontier(bs, block_map, var, subs) ==
    IF subs = {} THEN bs
    ELSE LET s == CHOOSE x \in subs : TRUE
         IN  PhisInFrontier(InsertPhi(bs, block_map, var, s), block_map, var,
                            subs \ {s})

\* the loop over var_defs[var].clone()
RECURSIVE PhisForDefs(_, _, _, _, _)
PhisForDefs(bs, block_map, fr, var, defs) ==
    IF defs = <<>> THEN bs
    ELSE PhisForDefs(PhisInFrontier(bs, block_map, var, fr[Head(defs)]),
                     block_map, fr, var, Tail(defs))

\* the loop over orig_var_names, in the order drawn; bs0 are the blocks
\* var_defs was computed from
RECURSIVE InsertPhis(_, _, _, _, _)
InsertPhis(bs, bs0, block_map, fr, order) ==
    IF order = <<>> THEN bs
    ELSE InsertPhis(PhisForDefs(bs, block_map, fr, Head(order),
                                var_defs(bs0, Head(order))),
                    bs0, block_map, fr, Tail(order))

Top(stack) == stack[Len(stack)]

\* format!("{}.{}", dest, name_counter[dest]), and "_" appended while the
\* name is an original one
RECURSIVE FreshName(_, _)
FreshName(new_name, orig) ==
    IF new_name \in orig THEN FreshName(new_name \o "_", orig) ELSE new_name
NewName(dest, counter, orig) == FreshName(dest \o "." \o ToString(counter), orig)

\* rename, for one instruction of the block: st holds the instructions
\* rewritten so far, the stacks, the counters and whether an index or an
\* expect has panicked
RenameStep(st, block_name, orig, c) ==
    IF st.panic THEN st
    ELSE IF ~IsPhi(c) /\ HasArgs(c)
            /\ \E i \in DOMAIN c.args : c.args[i] \notin DOMAIN st.var_names
    THEN [st EXCEPT !.panic = TRUE]
    ELSE LET c1 == IF ~IsPhi(c) /\ HasArgs(c)
                   THEN [c EXCEPT !.args = [i \in DOMAIN c.args |->
                                    Top(st.var_names[c.args[i]])[2]]]
                   ELSE c
         IN  IF ~HasDest(c) THEN [st EXCEPT !.out = Append(@, c1)]
             ELSE IF c.dest \notin DOMAIN st.name_counter
             THEN [st EXCEPT !.panic = TRUE]
             ELSE LET new_name == NewName(c.dest, st.name_counter[c.dest], orig)
                  IN  [out |-> Append(st.out, [c1 EXCEPT !.dest = new_name]),
                       var_names |-> [st.var_names EXCEPT ![c.dest] =
                                         Append(@, <<block_name, new_name>>)],
                       name_counter |-> [st.name_counter EXCEPT ![c.dest] = @ + 1],
                       panic |-> FALSE]

RECURSIVE RenameInstrs(_, _, _, _)
RenameInstrs(st, block_name, orig, is) ==
    IF is = <<>> THEN st
    ELSE RenameInstrs(RenameStep(st, block_name, orig, Head(is)), block_name,
                      orig, Tail(is))

\* The variables whose stack holds the name phi_dest.  The names of two
\* stacks differ (each is the variable itself or made from it by NewName),
\* so find_map has at most one to find.
CanonicalNames(vn, phi_dest) ==
    {v \in DOMAIN vn : \E k \in DOMAIN vn[v] : vn[v][k][2] = phi_dest}

\* what rename adds to one instruction of a successor
FillPhi(c, vn) ==
    IF ~IsPhi(c) THEN c
    ELSE LET canonical_name == CHOOSE v \in CanonicalNames(vn, c.dest) : TRUE
             bname == Top(vn[canonical_name])[1]
             vname == Top(vn[canonical_name])[2]
         IN  [c EXCEPT !.args = Append(@, vname), !.labels = Append(@, bname)]

\* expect("Cannot find canonical name") panics for a phi of blk
PhiPanics(blk, vn) ==
    \E k \in DOMAIN blk : IsPhi(blk[k]) /\ CanonicalNames(vn, blk[k].dest) = {}

\* the loop over successors[block_name]
RECURSIVE FillSuccessors(_, _, _, _)
FillSuccessors(st, block_map, vn, succs) ==
    IF succs = <<>> \/ st.panic THEN st
    ELSE LET idx == block_map[Head(succs)]
             blk == st.blocks[idx]
         IN  IF PhiPanics(blk, vn) THEN [st EXCEPT !.panic = TRUE]
             ELSE FillSuccessors(
                    [st EXCEPT !.blocks[idx] = [k \in DOMAIN blk |-> FillPhi(blk[k], vn)]],
                    block_map, vn, Tail(succs))

\* rename up to its recursive calls
RenameBody(bs, block_map, successors, orig, vn, nc, block_name) ==
    LET idx == block_map[block_name]
        r == RenameInstrs([out |-> <<>>, var_names |-> vn, name_counter |-> nc,
                           panic |-> FALSE], block_name, orig, bs[idx])
    IN  IF r.panic
        THEN [blocks |-> bs, var_names |-> vn, name_counter |-> nc, panic |-> TRUE]
        ELSE LET f == FillSuccessors([blocks |-> [bs EXCEPT ![idx] = r.out],
                                      panic |-> FALSE],
                                     block_map, r.var_names, successors[block_name])
             IN  [blocks |-> f.blocks, var_names |-> r.var_names,
                  name_counter |-> r.name_counter, panic |-> f.panic]

\* The functions converted: c and x are defined before the first branch, so
\* that every use has a definition on every path.  Each body is a block's
\* instructions between its label and its terminator.
SsaPre == <<Constant("c", BoolLit(TRUE)), Constant("x", IntLit(1))>>
SsaBodies ==
    {<<>>, <<Constant("x", IntLit(2))>>, <<Value("add", "x", <<"x", "x">>)>>,
     <<Effect("print", <<"x">>, <<>>)>>, <<Constant("y", IntLit(1))>>}
\* one block
SsaLines == {SsaPre \o a \o b : a \in SsaBodies, b \in SsaBodies}
\* f1 -> {A, B} -> J
SsaDiamonds ==
    {SsaPre \o Diamond(a, b, j) : a \in SsaBodies, b \in SsaBodies, j \in SsaBodies}
\* f1 -> {A, B}, A -> B
SsaTriangles ==
    {SsaPre \o <<Effect("br", <<"c">>, <<"A", "B">>), Label("A")>> \o a
        \o <<Label("B")>> \o b : a \in SsaBodies, b \in SsaBodies}
\* f1 -> H, H -> {T, E}, T -> H
SsaLoops ==
    {SsaPre \o <<Label("H")>> \o h
        \o <<Effect("br", <<"c">>, <<"T", "E">>), Label("T")>> \o t
        \o <<Effect("jmp", <<>>, <<"H">>), Label("E")>> \o e :
        h \in SsaBodies, t \in SsaBodies, e \in SsaBodies}
\* f1 -> H, H -> {H, E}, and a block that only jumps to itself
SsaSelfLoops ==
    {SsaPre \o <<Label("H")>> \o h
        \o <<Effect("br", <<"c">>, <<"H", "E">>), Label("E")>> \o e :
        h \in SsaBodies, e \in SsaBodies}
    \cup {<<Label("A"), Effect("jmp", <<>>, <<"A">>)>>}
\* f1 -> {A, J}, A -> P, P -> J
SsaChains ==
    {SsaPre \o <<Effect("br", <<"c">>, <<"A", "J">>), Label("A")>> \o a
        \o <<Label("P")>> \o p \o <<Label("J")>> \o j :
        a \in SsaBodies, p \in SsaBodies, j \in SsaBodies}
\* and the function without instructions
SsaFunctions ==
    SsaLines \cup SsaDiamonds \cup SsaTriangles \cup SsaLoops \cup SsaSelfLoops
        \cup SsaChains \cup {<<>>}

\* the depth of the calls of rename that is taken for a recursion without
\* end: no function converted has as many blocks
MaxRenameDepth == 8

InitSSA ==
    /\ instrs \in SsaFunctions
    /\ pc = "convert_to_ssa"
    /\ line = 1 /\ blocks = <<>> /\ block = <<>>
    /\ cfg = EmptyMap /\ name2idx = EmptyMap
    /\ Idle

\* convert_to_ssa: the blocks, the CFG, the dominator tree, the frontier and
\* the block map
ConvertToSsaAnalyses ==
    /\ pc = "convert_to_ssa"
    /\ blocks' = expanded_basic_blocks(instrs)
    /\ cfg' = control_flow_graph(instrs)
    /\ name2idx' = block_name_to_idx(instrs)
    /\ last_dom' = dominators(blocks', cfg')
    /\ dom_tree' = dominator_tree(cfg', last_dom')
    /\ frontier' = dominance_frontier(cfg', last_dom')
    /\ pc' = "ssa_phis"
    /\ UNCHANGED <<var_names, name_counter, rename_stack, rename_visits, dceVars,
                   instrs, line, block, block_names, rdVars, lvnVars>>

\* convert_to_ssa: phi placement, in the order the HashSet of the variables
\* gives, and the first stacks and counters.  Collecting orig_var_block_names
\* into a map keeps one of the blocks that define the variable.
ConvertToSsaPhis ==
    /\ pc = "ssa_phis"
    /\ \E order \in SetOrders(orig_var_names(instrs)) :
         blocks' = InsertPhis(blocks, blocks, name2idx, frontier, order)
    /\ \E first \in [orig_var_names(instrs) -> DOMAIN cfg] :
         /\ \A v \in orig_var_names(instrs) : first[v] \in DefBlocks(blocks, v)
         /\ var_names' = [v \in orig_var_names(instrs) |-> <<<<first[v], v>>>>]
    /\ name_counter' = [v \in orig_var_names(instrs) |-> 1]
    /\ pc' = "ssa_rename"
    /\ UNCHANGED <<dom_tree, rename_stack, rename_visits, dceVars, instrs, line,
                   block, cfgVars, domVars, rdVars, lvnVars>>

\* a call rename(block_name) up to its loop over dom_tree[block_name], whose
\* order is the one the Vec was collected in
RenameCall(block_name, callers) ==
    LET r == RenameBody(blocks, name2idx, cfg, orig_var_names(instrs), var_names,
                        name_counter, block_name)
    IN  /\ ~r.panic
        /\ blocks' = r.blocks
        /\ var_names' = r.var_names
        /\ name_counter' = r.name_counter
        /\ rename_visits' = Append(rename_visits, block_name)
        /\ \E todo \in SetOrders(dom_tree[block_name]) :
             rename_stack' = Append(callers,
                [block_name |-> block_name, init_var_stacks |-> var_names,
                 todo |-> todo])

RenamePanics(block_name) ==
    RenameBody(blocks, name2idx, cfg, orig_var_names(instrs), var_names,
               name_counter, block_name).panic

\* convert_to_ssa calls rename("entry")
RenameEntry ==
    /\ pc = "ssa_rename"
    /\ RenameCall("entry", <<>>)
    /\ pc' = "rename"
    /\ UNCHANGED <<dom_tree, dceVars, instrs, line, block, cfgVars, domVars,
                   rdVars, lvnVars>>

\* rename calls itself for the next child of the block
RenameChild ==
    /\ pc = "rename"
    /\ Len(rename_stack) < MaxRenameDepth
    /\ Top(rename_stack).todo # <<>>
    /\ RenameCall(Head(Top(rename_stack).todo),
                  [rename_stack EXCEPT ![Len(rename_stack)].todo = Tail(@)])
    /\ UNCHANGED <<pc, dom_tree, dceVars, instrs, line, block, cfgVars, domVars,
                   rdVars, lvnVars>>

\* the call for the next child panics
RenamePanic ==
    /\ pc = "rename"
    /\ Len(rename_stack) < MaxRenameDepth
    /\ Top(rename_stack).todo # <<>>
    /\ RenamePanics(Head(Top(rename_stack).todo))
    /\ rename_visits' = Append(rename_visits, Head(Top(rename_stack).todo))
    /\ pc' = "ssa_panic"
    /\ UNCHANGED <<dom_tree, var_names, name_counter, rename_stack, dceVars, instrs,
                   line, blocks, block, cfgVars, domVars, rdVars, lvnVars>>

\* the calls are MaxRenameDepth deep: the recursion has no end
RenameOverflow ==
    /\ pc = "rename"
    /\ Len(rename_stack) = MaxRenameDepth
    /\ Top(rename_stack).todo # <<>>
    /\ pc' = "ssa_overflow"
    /\ UNCHANGED <<ssaVars, dceVars, instrs, line, blocks, block, cfgVars,
                   domVars, rdVars, lvnVars>>

\* rename returns: the stacks are those of its entry again; convert_to_ssa
\* returns when rename("entry") does
RenameReturn ==
    /\ pc = "rename"
    /\ Top(rename_stack).todo = <<>>
    /\ var_names' = Top(rename_stack).init_var_stacks
    /\ rename_stack' = SubSeq(rename_stack, 1, Len(rename_stack) - 1)
    /\ pc' = IF Len(rename_stack) = 1 THEN "ssa_done" ELSE "rename"
    /\ UNCHANGED <<dom_tree, name_counter, rename_visits, dceVars, instrs, line,
                   blocks, block, cfgVars, domVars, rdVars, lvnVars>>

\* the instructions of the Function convert_to_ssa returns
SsaInstrs == Concat(SubSeq(blocks, 2, Len(blocks) - 1))

NextSSA ==
    \/ ConvertToSsaAnalyses
    \/ ConvertToSsaPhis
    \/ RenameEntry
    \/ RenameChild
    \/ RenamePanic
    \/ RenameOverflow
    \/ RenameReturn

SpecSSA == InitSSA /\ [][NextSSA]_vars

-----------------------------------------------------------------------------
(***************************************************************************)
(* Claims about parse.rs, checked under SpecCFG.                           *)
(***************************************************************************)
BBDone == pc \in {"control_flow_graph", "cfg_done"}
IsTerminatorEffect(c) == c.kind = "Effect" /\ c.op \in {"jmp", "br", "ret"}
Expanded == <<<<Label("entry")>>>> \o blocks \o <<<<Label("exit")>>>>
DistinctNames(bs) ==
    \A i, j \in DOMAIN bs : NameAt(bs, i) = NameAt(bs, j) => i = j

\* C1: when basic_blocks returns, the blocks concatenated in order are
\* func.instrs, no block is empty, a label stands only first in its block and a
\* terminator (jmp, br, ret) only last; no instructions give no blocks.
C1_Partition ==
    BBDone =>
        /\ Concat(blocks) = instrs
        /\ \A i \in DOMAIN blocks :
             /\ blocks[i] # <<>>
             /\ \A j \in DOMAIN blocks[i] :
                  /\ blocks[i][j].kind = "Label" => j = 1
                  /\ IsTerminatorEffect(blocks[i][j]) => j = Len(blocks[i])
        /\ instrs = <<>> => blocks = <<>>

\* C1 witness: a function split into several blocks, one of them opened by a
\* label and closed by a terminator, another closed by a terminator that the
\* next instruction follows.
C1_Witness ==
    /\ BBDone
    /\ Len(blocks) >= 2
    /\ \E i \in DOMAIN blocks :
         /\ Len(blocks[i]) >= 2
         /\ blocks[i][1].kind = "Label"
         /\ IsTerminatorEffect(blocks[i][Len(blocks[i])])
    /\ \E i \in DOMAIN blocks :
         i < Len(blocks) /\ IsTerminatorEffect(blocks[i][Len(blocks[i])])
                         /\ blocks[i + 1][1].kind # "Label"

\* C2: for a well-formed function the CFG has one key per block of the
\* expanded block list, distinct blocks have distinct names, and every
\* successor name is a key.
C2_KeysAndSuccessors ==
    pc = "cfg_done" =>
        /\ DistinctNames(Expanded)
        /\ Cardinality(DOMAIN cfg) = Len(Expanded)
        /\ \A i \in DOMAIN Expanded : NameAt(Expanded, i) \in DOMAIN cfg
        /\ \A k \in DOMAIN cfg : Range(cfg[k]) \subseteq DOMAIN cfg

\* C3: the successors of a block follow from its last instruction: the labels
\* of a jmp or br in order; for ret nothing but possibly exit; otherwise the
\* next block in source order (nothing for the last block).  Stated for
\* functions whose block names are distinct.
C3_SuccessorsByLast ==
    (pc = "cfg_done" /\ DistinctNames(Expanded)) =>
        \A i \in DOMAIN Expanded :
            LET last == Expanded[i][Len(Expanded[i])]
                succ == cfg[NameAt(Expanded, i)]
            IN  IF last.kind = "Effect" /\ last.op \in {"jmp", "br"}
                THEN succ = last.labels
                ELSE IF last.kind = "Effect" /\ last.op = "ret"
                THEN Range(succ) \subseteq {"exit"}
                ELSE succ = IF i < Len(Expanded) THEN <<NameAt(Expanded, i + 1)>>
                            ELSE <<>>

-----------------------------------------------------------------------------
(***************************************************************************)
(* Claims about dominance, checked under SpecDom.                          *)
(***************************************************************************)
RECURSIVE ReachFrom(_, _)
ReachFrom(g, S) ==
    LET nxt == S \cup {n \in DOMAIN g : \E m \in S \cap DOMAIN g : n \in Range(g[m])}
    IN  IF nxt = S THEN S ELSE ReachFrom(g, nxt)

\* the blocks reachable from entry in the CFG computed
Reachable == ReachFrom(cfg, {"entry"})
DomDone == pc \in {"dominance_frontier", "dom_done"}
NamesDistinct == DistinctNames(expanded_basic_blocks(instrs))

\* C4: when dominators returns, entry's dominators are {entry} and entry
\* dominates every block reachable from entry.  Stated for functions whose
\* block names are distinct.
C4_EntryDominatesReachable ==
    (DomDone /\ NamesDistinct) =>
        /\ last_dom["entry"] = {"entry"}
        /\ \A b \in Reachable : "entry" \in last_dom[b]

\* C5: for every CFG edge u -> v and block d that dominates u and does not
\* strictly dominate v, v is in the dominance frontier of d.  Stated for d
\* and u reachable from entry, in functions with distinct block names where
\* no reachable block has an unreachable predecessor.
C5_FrontierOfEdges ==
    (/\ pc = "dom_done" /\ NamesDistinct
     /\ \A b \in Reachable : invert_digraph(cfg)[b] \subseteq Reachable) =>
        \A d \in Reachable, u \in Reachable :
            \A v \in Range(cfg[u]) :
                (d \in last_dom[u] /\ ~(d \in last_dom[v] /\ d # v))
                    => v \in frontier[d]

\* C6: the dominance frontier of a block that is not reachable from entry is
\* empty.  Stated for functions whose block names are distinct.
C6_UnreachableFrontierEmpty ==
    (pc = "dom_done" /\ NamesDistinct) =>
        \A b \in DOMAIN frontier \ Reachable : frontier[b] = {}

-----------------------------------------------------------------------------
(***************************************************************************)
(* Claims about reaching definitions, checked under SpecRD.                *)
(***************************************************************************)
BlockOf(b) == blocks[name2idx[b]]
DefsOf(S, x) == {d \in S : d.name = x}
\* the last definition of x in block b
LastDef(b, x) ==
    LET ls == {i \in DOMAIN BlockOf(b) : HasDest(BlockOf(b)[i]) /\ BlockOf(b)[i].dest = x}
    IN  Definition(x, b, (CHOOSE i \in ls : \A j \in ls : j <= i) - 1)
Redefines(b, x) ==
    \E i \in DOMAIN BlockOf(b) : HasDest(BlockOf(b)[i]) /\ BlockOf(b)[i].dest = x

\* C7 (first two parts): at the return OUT[b] holds every definition b
\* generates and IN[b] is the union of OUT[p] over the predecessors p of b.
RD_GenAndMerge ==
    (pc = "rd_done" /\ NamesDistinct) =>
        \A b \in DOMAIN outputs :
            /\ Defined(BlockOf(b), b) \subseteq outputs[b]
            /\ inputs[b] = Merge(outputs, invert_digraph(cfg), b)

\* C7: at the return, for every block b, OUT[b] holds every definition b
\* generates, IN[b] is the union of OUT[p] over the predecessors p of b, and
\* computing IN and OUT of b once more gives the same sets.  Stated for
\* functions whose block names are distinct.
C7_Fixpoint ==
    (pc = "rd_done" /\ NamesDistinct) =>
        \A b \in DOMAIN outputs :
            /\ Defined(BlockOf(b), b) \subseteq outputs[b]
            /\ inputs[b] = Merge(outputs, invert_digraph(cfg), b)
            /\ \A again \in TransferResults(BlockOf(b), b,
                                           Merge(outputs, invert_digraph(cfg), b)) :
                    again = outputs[b]

\* C8: when IN[b] holds definitions of x made in two other blocks and b
\* defines x, OUT[b] holds exactly one definition of x, the last one made
\* in b: the transfer kills every definition of x in IN.  Stated for the
\* blocks the worklist loop has computed, in functions whose block names are
\* distinct.
C8_KillsEveryDefinition ==
    (pc \in {"worklist", "rd_done"} /\ NamesDistinct) =>
        \A b \in DOMAIN inputs : \A x \in {"x", "y"} :
            (/\ \E d1, d2 \in DefsOf(inputs[b], x) :
                    d1.block # b /\ d2.block # b /\ d1.block # d2.block
             /\ Redefines(b, x))
                => DefsOf(outputs[b], x) = {LastDef(b, x)}

-----------------------------------------------------------------------------
(***************************************************************************)
(* Claims about LVN, checked under SpecLVN.  A block is run on a store by  *)
(* the semantics of Bril: const, id and the arithmetic, comparison and     *)
(* logic operators; an Effect records the values of its arguments.         *)
(***************************************************************************)
\* a value is <<n>>; a variable that holds none reads as <<>>
Undef == <<>>
Val(n) == <<n>>
StoreVals == {Val(0), Val(2)}
Stores == [LvnVars -> StoreVals]

Read(st, v) == IF v \in DOMAIN st THEN st[v] ELSE Undef
B2I(b) == IF b THEN 1 ELSE 0
EvalOp(o, vs) ==
    IF \E i \in DOMAIN vs : vs[i] = Undef THEN Undef
    ELSE LET a == vs[1][1]
             b == vs[Len(vs)][1]
         IN  CASE o = "id" -> Val(a)
               [] o = "add" -> Val(a + b)
               [] o = "sub" -> Val(a - b)
               [] o = "mul" -> Val(a * b)
               [] o = "div" -> IF b = 0 THEN Undef ELSE Val(TruncDiv(a, b))
               [] o = "eq" -> Val(B2I(a = b))
               [] o = "lt" -> Val(B2I(a < b))
               [] o = "gt" -> Val(B2I(a > b))
               [] o = "le" -> Val(B2I(a <= b))
               [] o = "ge" -> Val(B2I(a >= b))
               [] o = "not" -> Val(B2I(a = 0))
               [] o = "and" -> Val(B2I(a # 0 /\ b # 0))
               [] o = "or" -> Val(B2I(a # 0 \/ b # 0))
               [] OTHER -> Undef

\* the store and the effects after running blk from instruction i
RECURSIVE Run(_, _, _, _)
Run(blk, i, st, eff) ==
    IF i > Len(blk) THEN [store |-> st, effects |-> eff]
    ELSE LET c == blk[i]
             vs == [k \in DOMAIN c.args |-> Read(st, c.args[k])]
         IN  CASE c.kind = "Constant" ->
                    Run(blk, i + 1, MapInsert(st, c.dest, Val(c.value.v)), eff)
               [] c.kind = "Value" ->
                    Run(blk, i + 1, MapInsert(st, c.dest, EvalOp(c.op, vs)), eff)
               [] c.kind = "Effect" ->
                    Run(blk, i + 1, st, Append(eff, <<c.op, vs>>))
               [] OTHER -> Run(blk, i + 1, st, eff)

\* what is observed of a run: the arguments given to the effects and the
\* final values of the variables of the original block (all live-out)
Observed(blk, st) ==
    LET r == Run(blk, 1, st, <<>>)
    IN  [effects |-> r.effects, final |-> [v \in LvnVars |-> Read(r.store, v)]]

FirstReturned == pc \in {"lvn_again", "lvn_again_loop", "lvn_again_panic", "lvn_done"}

\* C9: LVN without folding preserves what is observed of a block: on every
\* input store the original block and lvn_block(block, false) give every
\* Effect the same argument values and every variable the same final value.
C9_LvnPreservesSemantics ==
    (FirstReturned /\ ~folding) =>
        \A st \in Stores : Observed(first_out, st) = Observed(instrs, st)

\* the variable names of a block in order of occurrence
RECURSIVE NamesOf(_)
NamesOf(blk) ==
    IF blk = <<>> THEN <<>>
    ELSE (IF HasDest(Head(blk)) THEN <<Head(blk).dest>> ELSE <<>>)
         \o Head(blk).args \o NamesOf(Tail(blk))

IsLvnName(v) == \E n \in 0..(2 * MaxLvnLen + 2) : v = LvnName(n)
ShapeOf(c) == [c EXCEPT !.dest = "", !.args = [k \in DOMAIN c.args |-> ""]]

\* equal up to a one-to-one renaming of the lvn.N names
EqModLvn(b1, b2) ==
    /\ Len(b1) = Len(b2)
    /\ \A i \in DOMAIN b1 : ShapeOf(b1[i]) = ShapeOf(b2[i])
    /\ LET s1 == NamesOf(b1)
           s2 == NamesOf(b2)
       IN  /\ \A i \in DOMAIN s1 :
                IF IsLvnName(s1[i]) THEN IsLvnName(s2[i]) ELSE s1[i] = s2[i]
           /\ \A i, j \in DOMAIN s1 : (s1[i] = s1[j]) <=> (s2[i] = s2[j])

\* C10: LVN is idempotent: for every block and either folding setting,
\* lvn_block on the result of lvn_block returns that result again, up to the
\* numbers in the lvn.N names.
C10_LvnIdempotent ==
    pc = "lvn_done" => EqModLvn(second_out, first_out)

\* instruction j of the input commutes instruction i: the same operator on
\* the same two variables, swapped, with no write to either variable or to the
\* destination of i from i up to j
Commutes(i, j) ==
    LET ci == instrs[i]
        cj == instrs[j]
    IN  /\ i < j
        /\ ci.kind = "Value" /\ cj.kind = "Value"
        /\ ci.op = cj.op
        /\ Len(ci.args) = 2
        /\ ci.args[1] # ci.args[2]
        /\ cj.args = <<ci.args[2], ci.args[1]>>
        /\ \A k \in i..(j - 1) :
              HasDest(instrs[k]) => instrs[k].dest \notin {ci.args[1], ci.args[2]}
        /\ \A k \in (i + 1)..(j - 1) : HasDest(instrs[k]) => instrs[k].dest # ci.dest

\* the instruction LVN emits for j is the one it emitted for i again: the
\* same constant, or an Id copy of the variable that holds i's value
EmittedAsCopy(i, j) ==
    LET oi == first_out[i]
        oj == first_out[j]
    IN  IF oi.kind = "Constant" THEN oj = Constant(instrs[j].dest, oi.value)
        ELSE oj = Value("id", instrs[j].dest,
                        IF oi.op = "id" THEN oi.args ELSE <<oi.dest>>)

\* C11: for each commutative operator (add, mul, and, or, eq), `op a b` and
\* a later `op b a` of the same block get the same canonical value: the
\* second is emitted as an Id copy of the first.
C11_CommutativeCanonical ==
    FirstReturned =>
        \A i, j \in DOMAIN instrs :
            (Commutes(i, j) /\ instrs[i].op \in {"add", "mul", "and", "or", "eq"})
                => EmittedAsCopy(i, j)

\* what the code does: the same for add and mul only
Lvn_CommutesAddMul ==
    FirstReturned =>
        \A i, j \in DOMAIN instrs :
            (Commutes(i, j) /\ instrs[i].op \in {"add", "mul"}) => EmittedAsCopy(i, j)

\* the literal a Bril operator gives on literals of the types it takes, NoLit
\* where it gives none; id gives its operand
BrilEval(o, ls) ==
    LET a == ls[1]
        b == ls[Len(ls)]
        ints == \A k \in DOMAIN ls : ls[k].ty = "int"
        bools == \A k \in DOMAIN ls : ls[k].ty = "bool"
    IN  CASE o = "id" -> a
          [] ints /\ o = "add" -> IntLit(a.v + b.v)
          [] ints /\ o = "sub" -> IntLit(a.v - b.v)
          [] ints /\ o = "mul" -> IntLit(a.v * b.v)
          [] ints /\ o = "div" /\ b.v # 0 -> IntLit(TruncDiv(a.v, b.v))
          [] ints /\ o = "eq" -> BoolLit(a.v = b.v)
          [] ints /\ o = "lt" -> BoolLit(a.v < b.v)
          [] ints /\ o = "gt" -> BoolLit(a.v > b.v)
          [] ints /\ o = "le" -> BoolLit(a.v <= b.v)
          [] ints /\ o = "ge" -> BoolLit(a.v >= b.v)
          [] bools /\ o = "and" -> BoolLit(a.v = 1 /\ b.v = 1)
          [] bools /\ o = "or" -> BoolLit(a.v = 1 \/ b.v = 1)
          [] bools /\ o = "not" -> BoolLit(a.v = 0)
          [] OTHER -> NoLit

\* the constants the variables hold after the first i instructions of blk:
\* a variable holds one when a Constant wrote it or when a Value instruction
\* wrote it whose operands all held constants
Known(st, v) == IF v \in DOMAIN st THEN st[v] ELSE NoLit
ArgLits(st, c) == [k \in DOMAIN c.args |-> Known(st, c.args[k])]
Evaluated(st, c) ==
    IF c.args # <<>> /\ \A k \in DOMAIN c.args : Known(st, c.args[k]) # NoLit
    THEN BrilEval(c.op, ArgLits(st, c))
    ELSE NoLit
RECURSIVE ConstStore(_, _)
ConstStore(blk, i) ==
    IF i = 0 THEN EmptyMap
    ELSE LET st == ConstStore(blk, i - 1)
             c == blk[i]
         IN  CASE c.kind = "Constant" -> MapInsert(st, c.dest, c.value)
               [] c.kind = "Value" -> MapInsert(st, c.dest, Evaluated(st, c))
               [] OTHER -> st

\* instruction i of the input is a Value instruction on constant operands
OnConstants(i) ==
    /\ instrs[i].kind = "Value"
    /\ Evaluated(ConstStore(instrs, i - 1), instrs[i]) # NoLit

FoldedAt(i) ==
    /\ first_out[i].kind = "Constant"
    /\ first_out[i].value = Evaluated(ConstStore(instrs, i - 1), instrs[i])

NoFoldWhenDisabled ==
    \A i \in DOMAIN instrs : first_out[i].kind = "Constant" => instrs[i].kind = "Constant"

DivByZero(blk, i) ==
    /\ blk[i].kind = "Value" /\ blk[i].op = "div"
    /\ Known(ConstStore(blk, i - 1), blk[i].args[2]) = IntLit(0)

\* the first lvn_block call has just handled instruction line - 1
Handled == pc = "lvn_loop" /\ line > 1

\* the division of instruction i was computed earlier in the block, on
\* operands with the same value numbers
DivSeenBefore(i) ==
    \E k \in 1..(i - 1) :
        /\ lvn_out[k].kind = "Value" /\ lvn_out[k].op = "div"
        /\ lvn_out[i] = Value("id", instrs[i].dest, <<lvn_out[k].dest>>)

NotFolded(i) ==
    /\ lvn.var2num[instrs[i].dest] \notin DOMAIN lvn.num2const
    /\ lvn_out[i].kind # "Constant"

\* C13 as stated: during folding a Div by the known constant 0 is never
\* folded: LVN does not abort on it, records no constant for its value
\* number, and emits the Div with its operator preserved.
C13_DivByZeroKept ==
    /\ (pc = "lvn_panic" /\ folding) => ~DivByZero(instrs, line)
    /\ (Handled /\ folding /\ DivByZero(instrs, line - 1)) =>
            /\ NotFolded(line - 1)
            /\ lvn_out[line - 1].kind = "Value" /\ lvn_out[line - 1].op = "div"

\* C13 amended: the same, except that a Div whose value the block has
\* computed before is emitted as an Id copy of that earlier result.
C13_DivByZeroNotFolded ==
    /\ (pc = "lvn_panic" /\ folding) => ~DivByZero(instrs, line)
    /\ (Handled /\ folding /\ DivByZero(instrs, line - 1)) =>
            /\ NotFolded(line - 1)
            /\ \/ lvn_out[line - 1].kind = "Value" /\ lvn_out[line - 1].op = "div"
               \/ DivSeenBefore(line - 1)

\* a Div of two constants, the divisor 0, has been emitted as a Div
C13_Witness ==
    /\ Handled /\ folding /\ DivByZero(instrs, line - 1)
    /\ Known(ConstStore(instrs, line - 2), instrs[line - 1].args[1]) = IntLit(2)
    /\ lvn_out[line - 1].op = "div"

-----------------------------------------------------------------------------
(***************************************************************************)
(* Claims about dead_variable_elim, checked under SpecDVE.                 *)
(***************************************************************************)
RECURSIVE EffectsAndLabels(_)
EffectsAndLabels(is) ==
    IF is = <<>> THEN <<>>
    ELSE (IF HasDest(Head(is)) THEN <<>> ELSE <<Head(is)>>) \o EffectsAndLabels(Tail(is))

DveResultFramed ==
    pc = "dve_done" =>
        /\ EffectsAndLabels(dce_last) = EffectsAndLabels(instrs)
        /\ \A i \in DOMAIN dce_last : HasDest(dce_last[i]) => dce_last[i].dest \in used_vars(dce_last)

\* C14: dead_variable_elim terminates on every function; its result keeps
\* every Effect and Label of the input in the original order, and every
\* Constant/Value that remains has a destination used as an argument by some
\* remaining instruction.
C14_DveTerminatesFramed == []DveResultFramed /\ <>(pc = "dve_done")

\* a definition whose destination the input uses has been dropped, after the
\* instruction that used it was dropped, while an Effect stays
C14_Witness ==
    /\ pc = "dve_done"
    /\ \E i \in DOMAIN instrs :
          /\ HasDest(instrs[i])
          /\ instrs[i].dest \in used_vars(instrs)
          /\ \A k \in DOMAIN dce_last : HasDest(dce_last[k]) => dce_last[k].dest # instrs[i].dest
    /\ \E k \in DOMAIN dce_last : dce_last[k].kind = "Effect"

-----------------------------------------------------------------------------
(***************************************************************************)
(* Claims about dead_store_elim, checked under SpecDSE.                    *)
(***************************************************************************)
\* instruction i of blk is overwritten by a later definition of the same
\* variable with no use of it in between
DeadStore(blk, i) ==
    /\ HasDest(blk[i])
    /\ \E j \in (i + 1)..Len(blk) :
          /\ HasDest(blk[j]) /\ blk[j].dest = blk[i].dest
          /\ \A k \in (i + 1)..j : blk[i].dest \notin Range(blk[k].args)

RECURSIVE WithoutDeadStores(_, _)
WithoutDeadStores(blk, i) ==
    IF i > Len(blk) THEN <<>>
    ELSE (IF DeadStore(blk, i) THEN <<>> ELSE <<blk[i]>>) \o WithoutDeadStores(blk, i + 1)

\* the block with its dead stores removed, until there is none
RECURSIVE NoDeadStores(_)
NoDeadStores(blk) ==
    IF \E i \in DOMAIN blk : DeadStore(blk, i)
    THEN NoDeadStores(WithoutDeadStores(blk, 1))
    ELSE blk

DseSameObserved ==
    pc = "dse_done" => \A st \in Stores : Observed(dce_last, st) = Observed(instrs, st)

\* C15: dead_store_elim removes exactly the definitions overwritten by a
\* later definition of the same variable with no use in between, also when
\* several variables have a dead store in the block: it never aborts, and its
\* result gives every Effect the same argument values and every variable the
\* same final value as the original block.
C15_DseRemovesDeadStores ==
    /\ pc # "dse_panic"
    /\ pc = "dse_done" => dce_last = NoDeadStores(instrs)
    /\ DseSameObserved

-----------------------------------------------------------------------------
(***************************************************************************)
(* Claims about dominator_tree and the dominators loop, checked under      *)
(* SpecDom.  Dominance is taken from the paths of the CFG: a dominates b   *)
(* when every path from entry to b goes through a.                         *)
(***************************************************************************)
\* the blocks reachable from entry by paths that avoid block a
ReachAvoiding(a) ==
    IF a = "entry" THEN {}
    ELSE ReachFrom([n \in DOMAIN cfg \ {a} |-> SelectSeq(cfg[n], LAMBDA m : m # a)],
                   {"entry"})
Dominates(a, b) == a = b \/ b \notin ReachAvoiding(a)
StrictDoms(b) == {a \in Reachable : a # b /\ Dominates(a, b)}
\* the immediate dominators of b: a set with one element for reachable b
IDoms(b) == {d \in StrictDoms(b) : \A a \in StrictDoms(b) : Dominates(a, d)}
Parents(b) == {p \in DOMAIN dom_tree : b \in dom_tree[p]}

\* C19: dominator_tree gives every block other than entry that is reachable
\* from entry exactly one parent, its immediate dominator, also when that is
\* not a CFG predecessor of the block (the join of a diamond); entry has no
\* parent and no block is its own child.  Stated for functions with distinct
\* block names.
C19_TreeOfImmediateDominators ==
    (pc = "dominator_tree_done" /\ NamesDistinct) =>
        /\ \A b \in Reachable \ {"entry"} : Parents(b) = IDoms(b)
        /\ Parents("entry") = {}
        /\ \A b \in DOMAIN dom_tree : b \notin dom_tree[b]

\* the greatest solution of the equation, by rounds that update every block
\* from the map of the round before: no order of the blocks enters it
RECURSIVE DomGreatest(_, _)
DomGreatest(doms, predecessors) ==
    LET nxt == [b \in DOMAIN doms |->
                   {b} \cup {d \in DOMAIN doms :
                                /\ predecessors[b] # {}
                                /\ \A p \in predecessors[b] : d \in doms[p]}]
    IN  IF nxt = doms THEN doms ELSE DomGreatest(nxt, predecessors)

DomReturned == pc \in {"dominance_frontier", "dom_done", "dominator_tree_done"}

\* the equation, the intersection being over the predecessors of b and
\* nothing for a block without predecessors
DomEquation ==
    \A b \in DOMAIN cfg :
        LET preds == invert_digraph(cfg)[b]
        IN  last_dom[b] =
                {b} \cup {d \in DOMAIN cfg : preds # {} /\ \A p \in preds : d \in last_dom[p]}

\* whatever key order the run drew, its result is the one map
DomOrderFree ==
    last_dom = DomGreatest([b \in DOMAIN cfg |-> DOMAIN cfg], invert_digraph(cfg))

\* every step of the loop either leaves it or shrinks the map: some set of
\* the map loses a block and none gains one, so the loop ends after at most
\* as many iterations as the initial map has elements
DomLoopShrinks ==
    pc = "dominators_loop" =>
        \/ pc' = "dominance_frontier"
        \/ /\ last_dom' # last_dom
           /\ \A b \in DOMAIN last_dom : last_dom'[b] \subseteq last_dom[b]

\* C20: the dominators loop terminates on every CFG, cyclic ones included;
\* its result satisfies dominators(b) = {b} \cup the intersection of
\* dominators(p) over the predecessors p of b, and is the same map whatever
\* the order in which the blocks are visited.
C20_DominatorsFixpoint ==
    /\ [][DomLoopShrinks]_vars
    /\ [](DomReturned => (DomEquation /\ DomOrderFree))

\* the loop has returned on a CFG with a cycle through two blocks, after at
\* least one iteration that changed the map
C20_Witness ==
    /\ DomReturned
    /\ \E a, b \in DOMAIN cfg :
          /\ a # b /\ a \in Reachable
          /\ b \in Range(cfg[a]) /\ a \in ReachFrom(cfg, {b})
          /\ last_dom[b] # DOMAIN cfg

-----------------------------------------------------------------------------
(***************************************************************************)
(* Claims about convert_to_ssa, checked under SpecSSA.  They are about the *)
(* function returned, so about the runs of convert_to_ssa that return.     *)
(***************************************************************************)
SsaDone == pc = "ssa_done"

\* the blocks of the function returned: all but entry and exit
SsaBlocks == 2..(Len(blocks) - 1)

\* where the function returned defines name n: <<block, line>>
DefSites(n) ==
    UNION {{<<b, k>> : k \in {j \in DOMAIN blocks[b] :
                HasDest(blocks[b][j]) /\ blocks[b][j].dest = n}} : b \in SsaBlocks}

\* C16: in the output of convert_to_ssa every variable name is the
\* destination of at most one instruction, also for inputs with join blocks
\* and loops.
C16_SingleAssignment ==
    SsaDone =>
        \A i \in DOMAIN SsaInstrs :
            HasDest(SsaInstrs[i]) => Cardinality(DefSites(SsaInstrs[i].dest)) = 1

\* the definition at site s is before line k of block b, or in another block
\* that dominates b
SiteDominates(s, b, k) ==
    \/ s[1] = b /\ s[2] < k
    \/ s[1] # b /\ Dominates(NameAt(blocks, s[1]), NameAt(blocks, b))

\* C17: in the output of convert_to_ssa every argument of every non-phi
\* instruction of a block reachable from entry names a variable with exactly
\* one definition, and that definition dominates the use; so no use is left
\* with an original name whose definition was renamed.
C17_UsesDominated ==
    SsaDone =>
        \A b \in SsaBlocks : NameAt(blocks, b) \in Reachable =>
            \A k \in DOMAIN blocks[b] :
                LET c == blocks[b][k]
                IN  (~IsPhi(c) /\ HasArgs(c)) =>
                        \A i \in DOMAIN c.args :
                            /\ Cardinality(DefSites(c.args[i])) = 1
                            /\ \A s \in DefSites(c.args[i]) : SiteDominates(s, b, k)

\* the names convert_to_ssa has given to the original variable v, and v
Versions(v) ==
    {v} \cup {NewName(v, n, DOMAIN name_counter) : n \in 1..name_counter[v]}
Base(n) == CHOOSE v \in DOMAIN name_counter : n \in Versions(v)

\* The name of v that is current at the end of block p of the output: the
\* destination of the last definition of v in p, or else the name current
\* at the end of the immediate dominator of p; v itself where no definition
\* is on the way from entry.
RECURSIVE CurrentAtEnd(_, _)
CurrentAtEnd(p, v) ==
    LET blk == blocks[name2idx[p]]
        ds == {k \in DOMAIN blk : HasDest(blk[k]) /\ blk[k].dest \in Versions(v)}
    IN  IF ds # {} THEN blk[CHOOSE k \in ds : \A j \in ds : j <= k].dest
        ELSE IF IDoms(p) = {} THEN v
        ELSE CurrentAtEnd(CHOOSE d \in IDoms(p) : TRUE, v)

\* C18: in the output of convert_to_ssa every phi of a block b has exactly
\* one (arg, label) pair per CFG predecessor of b, each label is the name of
\* that predecessor, and the arg is the name of the variable that is current
\* at the end of that predecessor.
C18_PhiPairsPerPredecessor ==
    SsaDone =>
        \A b \in SsaBlocks : \A k \in DOMAIN blocks[b] :
            LET c == blocks[b][k]
                preds == invert_digraph(cfg)[NameAt(blocks, b)]
            IN  IsPhi(c) =>
                    /\ Len(c.args) = Len(c.labels)
                    /\ Len(c.labels) = Cardinality(preds)
                    /\ Range(c.labels) = preds
                    /\ \A i \in DOMAIN c.labels :
                          c.args[i] = CurrentAtEnd(c.labels[i], Base(c.dest))

\* dominator_tree has given every reachable block its immediate dominator
SsaTreeRight ==
    /\ \A b \in Reachable \ {"entry"} : Parents(b) = IDoms(b)
    /\ \A b \in DOMAIN dom_tree : b \notin dom_tree[b]

\* single assignment and dominated uses where the tree is right
Ssa_SingleAssignmentOnTree == SsaTreeRight => C16_SingleAssignment
Ssa_UsesDominatedOnTree == SsaTreeRight => C17_UsesDominated
Ssa_PhiPairsOnTree == SsaTreeRight => C18_PhiPairsPerPredecessor

-----------------------------------------------------------------------------
(***************************************************************************)
(* Claims about the worklist loop of reaching_definitions, checked under   *)
(* SpecRDLoop.                                                             *)
(***************************************************************************)
\* the block the next iteration pops, and the input it merges for it
RdNext == worklist[Len(worklist)]
RdNextInput == Merge(outputs, invert_digraph(cfg), RdNext)

\* The input of the block popped has grown since the block was last popped,
\* and every OUT transfer may give for the larger input holds every OUT it
\* may give for the smaller one, whichever definitions find returns.
RdMonotone ==
    (/\ pc = "worklist" /\ worklist # <<>>
     /\ RdNext \in DOMAIN inputs
     /\ inputs[RdNext] \subseteq RdNextInput /\ inputs[RdNext] # RdNextInput) =>
        \A o1 \in TransferResults(blocks[name2idx[RdNext]], RdNext, inputs[RdNext]) :
            \A o2 \in TransferResults(blocks[name2idx[RdNext]], RdNext, RdNextInput) :
                o1 \subseteq o2

\* A step of the worklist loop that the next iteration can undo: the block
\* popped next may get the OUT it had before the step, which puts back the
\* worklist, the inputs and the outputs of before.  With such a step the loop
\* has a run that never ends.
RdStepBack ==
    /\ pc = "worklist" /\ pc' = "worklist" /\ worklist' # <<>>
    /\ outputs' # outputs
    /\ LET b == worklist'[Len(worklist')]
           rest == SubSeq(worklist', 1, Len(worklist') - 1)
           input == Merge(outputs', invert_digraph(cfg), b)
       IN  /\ outputs[b] \in TransferResults(blocks[name2idx[b]], b, input)
           /\ outputs[b] # outputs'[b]
           /\ rest \o cfg[b] = worklist
           /\ MapInsert(outputs', b, outputs[b]) = outputs
           /\ MapInsert(inputs', b, input) = inputs

\* C21: the worklist loop of reaching_definitions terminates for every
\* function, also on a loop in which several definitions of a variable
\* reach a block that redefines it (so no iteration can be undone by the
\* next), and transfer is monotone: a larger IN never gives an OUT that
\* lacks an element of the OUT of a smaller IN, in whichever order the
\* elements of the sets are enumerated.
C21_RdTerminatesMonotone ==
    /\ [][~RdStepBack]_vars
    /\ []RdMonotone

\* the two halves of C21
Rd_NoStepBack == [][~RdStepBack]_vars
Rd_MonotoneOnly == RdMonotone

-----------------------------------------------------------------------------
(***************************************************************************)
(* The function without instructions.                                      *)
(***************************************************************************)
\* the map reaching_definitions returns: (IN, OUT) for every block name
RdReturned == [b \in DOMAIN name2idx |-> <<inputs[b], outputs[b]>>]

\* C22: for a function with no instructions reaching_definitions returns an
\* empty map, dominators returns an empty map, and convert_to_ssa returns a
\* function with the same, empty, list of instructions.
C22_EmptyFunction ==
    instrs = <<>> =>
        /\ pc = "rd_done" => DOMAIN RdReturned = {}
        /\ DomReturned => DOMAIN last_dom = {}
        /\ SsaDone => SsaInstrs = <<>>

\* the part of C22 about convert_to_ssa
Ssa_EmptyStaysEmpty == (instrs = <<>> /\ SsaDone) => SsaInstrs = <<>>

-----------------------------------------------------------------------------
(***************************************************************************)
(* Claims about phi placement and the renaming traversal, checked under    *)
(* SpecSSA.                                                                *)
(***************************************************************************)
\* phi placement has ended and rename has not begun
PhisPlaced == pc = "ssa_rename"

\* block b holds a definition of v, a phi for v being one
DefinesVar(b, v) ==
    \E k \in DOMAIN BlockOf(b) : HasDest(BlockOf(b)[k]) /\ BlockOf(b)[k].dest = v
HoldsInstruction(f) ==
    \E k \in DOMAIN BlockOf(f) : BlockOf(f)[k].kind # "Label"
PhisFor(f, v) ==
    {k \in DOMAIN BlockOf(f) : IsPhi(BlockOf(f)[k]) /\ BlockOf(f)[k].dest = v}

\* C23: phi placement reaches the iterated dominance frontier: after it, for
\* every original variable v and every block b that defines v (an inserted
\* phi counts), every block f of dominance_frontier(b) that holds an
\* instruction holds exactly one phi for v, also when f already holds a phi
\* for another variable.
C23_PhisOnIteratedFrontier ==
    PhisPlaced =>
        \A v \in orig_var_names(instrs) : \A b \in DOMAIN cfg :
            DefinesVar(b, v) =>
                \A f \in frontier[b] :
                    HoldsInstruction(f) => Cardinality(PhisFor(f, v)) = 1

\* the part of C23 that holds: no block holds two phis for one variable
Ssa_AtMostOnePhi ==
    PhisPlaced =>
        \A v \in orig_var_names(instrs) : \A f \in DOMAIN cfg :
            Cardinality(PhisFor(f, v)) <= 1

-----------------------------------------------------------------------------
(***************************************************************************)
(* Claims about the preamble of lvn_block, checked under SpecLVN.  Every   *)
(* variable of a block given to lvn_block is live-in to it.                *)
(***************************************************************************)
\* the variables an instruction of the block, Value or Effect, reads before
\* the block writes them
ReadBeforeWrite(blk) ==
    UNION {Range(blk[i].args) \ WrittenBefore(blk, i) :
              i \in {j \in DOMAIN blk : HasArgs(blk[j])}}

\* C25: the preamble of lvn_block gives a value number to every variable
\* the block reads before a local write, whichever kind of instruction
\* reads it, and so lvn_block does not abort on a block whose read
\* variables are live-in or defined earlier in the block, such as a block
\* that is only `print x`.
C25_PreambleNumbersEveryRead ==
    /\ (pc = "lvn_loop" /\ line = 1) =>
            ReadBeforeWrite(instrs) \subseteq DOMAIN lvn.var2num
    /\ pc # "lvn_panic"

\* the part of C25 that holds: the reads of Value instructions are numbered
Lvn_ValueReadsNumbered ==
    (pc = "lvn_loop" /\ line = 1) => read_first(instrs) \subseteq DOMAIN lvn.var2num

-----------------------------------------------------------------------------
(***************************************************************************)
(* Claims about the removals of dead_store_elim, checked under SpecDSE.    *)
(***************************************************************************)
\* The removals of one pass over `is`: for each, the line of the definition
\* that triggers it, the line recorded in unused_defs, and the line of `is`
\* that the item removed from the block came from.  idxs holds, for every
\* item of the block, the line of `is` it came from.
RECURSIVE DseRemovals(_, _, _, _)
DseRemovals(is, i, st, idxs) ==
    IF i > Len(is) \/ st.panic THEN {}
    ELSE LET instr == is[i]
             unused == IF HasArgs(instr)
                       THEN MapRemove(st.unused_defs, Range(instr.args))
                       ELSE st.unused_defs
             removes == /\ HasDest(instr) /\ instr.dest \in DOMAIN unused
                        /\ unused[instr.dest] <= Len(st.block)
         IN  (IF removes
              THEN {[trigger |-> i, recorded |-> unused[instr.dest],
                     removed |-> idxs[unused[instr.dest]]]}
              ELSE {})
             \cup DseRemovals(is, i + 1, DseStep(st, i, instr),
                              IF removes THEN RemoveAt(idxs, unused[instr.dest])
                              ELSE idxs)

PassRemovals(is) ==
    DseRemovals(is, 1, [block |-> is, unused_defs |-> EmptyMap, panic |-> FALSE],
                [k \in 1..Len(is) |-> k])

\* C26: dead_store_elim never removes an Effect or a Label: in every pass
\* each instruction removed is a Constant or Value definition of the
\* variable of the definition that triggers the removal, and it is the
\* instruction recorded in unused_defs, however many instructions the pass
\* has removed before.
C26_DseRemovesRecordedDefinition ==
    pc = "dse_loop" =>
        \A r \in PassRemovals(dce_last) :
            /\ HasDest(dce_last[r.removed])
            /\ dce_last[r.removed].dest = dce_last[r.trigger].dest
            /\ r.removed = r.recorded

\* the part of C26 that holds: the first removal of a pass removes the
\* instruction recorded
Dse_FirstRemovalRecorded ==
    pc = "dse_loop" =>
        \A r \in PassRemovals(dce_last) :
            (\A q \in PassRemovals(dce_last) : q.trigger >= r.trigger) =>
                /\ HasDest(dce_last[r.removed])
                /\ dce_last[r.removed].dest = dce_last[r.trigger].dest
                /\ r.removed = r.recorded

\* the first part of C26 alone: no pass removes an Effect
Dse_NeverRemovesEffect ==
    pc = "dse_loop" =>
        \A r \in PassRemovals(dce_last) : dce_last[r.removed].kind # "Effect"

-----------------------------------------------------------------------------
(***************************************************************************)
(* Claims about the renaming traversal, checked under SpecSSA.             *)
(***************************************************************************)
\* the calls of rename made for block b so far
VisitsOf(b) == {i \in DOMAIN rename_visits : rename_visits[i] = b}

\* C24: the renaming traversal of convert_to_ssa, started at entry, visits
\* every block reachable from entry exactly once and so terminates, also
\* when the CFG has loops or a block that branches to itself: no block is
\* ever visited twice, the recursion has an end, and when rename("entry")
\* has returned every reachable block has been visited.
C24_RenameVisitsOnce ==
    /\ \A b \in DOMAIN cfg : Cardinality(VisitsOf(b)) <= 1
    /\ pc # "ssa_overflow"
    /\ SsaDone => \A b \in Reachable : VisitsOf(b) # {}

\* the three parts of C24
Ssa_NoSecondVisit == \A b \in DOMAIN cfg : Cardinality(VisitsOf(b)) <= 1
Ssa_RecursionEnds == pc # "ssa_overflow"
Ssa_EveryBlockVisited == SsaDone => \A b \in Reachable : VisitsOf(b) # {}
\* the traversal is right where the tree is
Ssa_VisitsOnceOnTree == SsaTreeRight => C24_RenameVisitsOnce

====
